---- MODULE Spec2Model ----
(***************************************************************************)
(* The outbox log and the replication manager of nayud-batch               *)
(* (src/src/replication/mod.rs), modelled at byte level: outbox.log and    *)
(* outbox.cursor are sequences of bytes, frames are encoded and parsed as  *)
(* the code encodes and parses them.                                       *)
(***************************************************************************)
EXTENDS Integers, Sequences, FiniteSets, TLC

(***************************************************************************)
(* Bounds of the model.                                                    *)
(***************************************************************************)
\* appends (complete or interrupted) done on the log in one behaviour
MaxAppends == 2
\* process deaths (manager dropped, or killed inside a file operation)
MaxCrashes == 1
\* largest `max` argument handed to a replay call
MaxBatch == 2
\* ticks of one FailoverManager
MaxTicks == 11
\* run_once calls of one SyncWorker
MaxRuns == 2
\* pieces (frames, whole or cut or with a wrong header) of a log file handed
\* to read_from
MaxPieces == 3
\* calls of get_or_prepare made by the callers of one DbClients
MaxCalls == 3

(***************************************************************************)
(* Program constants.                                                      *)
(***************************************************************************)
\* OB_MAGIC = 0x4E415944
OB_MAGIC == 1312905540
OB_VERSION == 1
HEADER_LEN == 4 + 2 + 4
\* size of outbox.cursor: one little-endian u64
CURSOR_LEN == 8

Cluster == {"Active", "Passive"}
OutboxTarget == {"Active", "Passive", "Both"}

(***************************************************************************)
(* Little-endian integers.                                                 *)
(***************************************************************************)
\* n.to_le_bytes() of a w-byte unsigned integer (`as uW` truncates)
RECURSIVE to_le_bytes(_, _)
to_le_bytes(n, w) ==
    IF w = 0 THEN <<>> ELSE <<n % 256>> \o to_le_bytes(n \div 256, w - 1)

\* uN::from_le_bytes; every value from 127 * 2^24 on is read as TooBig,
\* which is larger than any length or offset the model compares it with
TooBig == 2147483647

\* the value of at most three bytes
le3(bs) ==
    (IF Len(bs) >= 1 THEN bs[1] ELSE 0)
      + (IF Len(bs) >= 2 THEN 256 * bs[2] ELSE 0)
      + (IF Len(bs) >= 3 THEN 65536 * bs[3] ELSE 0)

from_le_bytes(bs) ==
    IF Len(bs) <= 3 THEN le3(bs)
    ELSE IF bs[4] >= 127 \/ \E i \in 5..Len(bs) : bs[i] # 0 THEN TooBig
    ELSE le3(bs) + 16777216 * bs[4]

\* the bytes of s from position n+1 on (&payload[n..])
Skip(s, n) == SubSeq(s, n + 1, Len(s))
\* the first n bytes of s (&payload[..n])
Take(s, n) == SubSeq(s, 1, n)

(***************************************************************************)
(* String::from_utf8: the well-formed UTF-8 byte sequences.                *)
(***************************************************************************)
IsCont(b) == b >= 128 /\ b <= 191

RECURSIVE from_utf8_ok(_)
from_utf8_ok(bs) ==
    IF bs = <<>> THEN TRUE
    ELSE LET b == bs[1] n == Len(bs) IN
         IF b < 128 THEN from_utf8_ok(Tail(bs))
         ELSE IF b >= 194 /\ b <= 223
              THEN n >= 2 /\ IsCont(bs[2]) /\ from_utf8_ok(Skip(bs, 2))
         ELSE IF b >= 224 /\ b <= 239
              THEN /\ n >= 3
                   /\ IsCont(bs[2]) /\ IsCont(bs[3])
                   /\ (b = 224 => bs[2] >= 160)
                   /\ (b = 237 => bs[2] <= 159)
                   /\ from_utf8_ok(Skip(bs, 3))
         ELSE IF b >= 240 /\ b <= 244
              THEN /\ n >= 4
                   /\ IsCont(bs[2]) /\ IsCont(bs[3]) /\ IsCont(bs[4])
                   /\ (b = 240 => bs[2] >= 144)
                   /\ (b = 244 => bs[2] <= 143)
                   /\ from_utf8_ok(Skip(bs, 4))
         ELSE FALSE

(***************************************************************************)
(* OutboxRecord and its payload encoding.                                  *)
(***************************************************************************)
\* the target byte counted from 0
TargetByte_from_zero(t) == IF t = "Active" THEN 0 ELSE IF t = "Passive" THEN 1 ELSE 2

TargetByte(t) == IF t = "Active" THEN 1 ELSE IF t = "Passive" THEN 2 ELSE 3

new_simple(key, cql, target) ==
    [idempotency_key |-> key, statement |-> cql, params |-> <<>>,
     target |-> target, created_ms |-> 0]

RECURSIVE encode_params(_)
encode_params(ps) ==
    IF ps = <<>> THEN <<>>
    ELSE to_le_bytes(Len(ps[1]), 4) \o ps[1] \o encode_params(Tail(ps))

encode(rec) ==
    to_le_bytes(rec.created_ms, 8)
      \o <<TargetByte(rec.target)>>
      \o to_le_bytes(Len(rec.idempotency_key), 2) \o rec.idempotency_key
      \o to_le_bytes(Len(rec.statement), 4) \o rec.statement
      \o to_le_bytes(Len(rec.params), 4) \o encode_params(rec.params)

\* Option<OutboxRecord>: None
None == [some |-> FALSE]
Some(r) == [some |-> TRUE, val |-> r]

\* the loop `for _ in 0..pcount` of decode; acc are the params read so far
RECURSIVE decode_params(_, _, _)
decode_params(payload, pcount, acc) ==
    IF pcount = 0 THEN Some(acc)
    ELSE IF Len(payload) < 4 THEN None
    ELSE LET len == from_le_bytes(Take(payload, 4))
             p1  == Skip(payload, 4)
         IN  IF Len(p1) < len THEN None
             ELSE decode_params(Skip(p1, len), pcount - 1,
                                Append(acc, Take(p1, len)))

decode(payload) ==
    IF Len(payload) < 8 THEN None
    ELSE
    LET created_ms == from_le_bytes(Take(payload, 8))
        p1 == Skip(payload, 8)
    IN
    IF p1 = <<>> THEN None
    ELSE
    LET t  == p1[1]
        p2 == Skip(p1, 1)
    IN
    IF t \notin {1, 2, 3} THEN None
    ELSE IF Len(p2) < 2 THEN None
    ELSE
    LET klen == from_le_bytes(Take(p2, 2))
        p3   == Skip(p2, 2)
    IN
    IF Len(p3) < klen THEN None
    ELSE IF ~from_utf8_ok(Take(p3, klen)) THEN None
    ELSE
    LET key == Take(p3, klen)
        p4  == Skip(p3, klen)
    IN
    IF Len(p4) < 4 THEN None
    ELSE
    LET slen == from_le_bytes(Take(p4, 4))
        p5   == Skip(p4, 4)
    IN
    IF Len(p5) < slen THEN None
    ELSE IF ~from_utf8_ok(Take(p5, slen)) THEN None
    ELSE
    LET stmt == Take(p5, slen)
        p6   == Skip(p5, slen)
    IN
    IF Len(p6) < 4 THEN None
    ELSE
    LET pcount == from_le_bytes(Take(p6, 4))
        ps     == decode_params(Skip(p6, 4), pcount, <<>>)
    IN
    IF ~ps.some THEN None
    ELSE Some([idempotency_key |-> key, statement |-> stmt,
               params |-> ps.val,
               target |-> IF t = 1 THEN "Active"
                          ELSE IF t = 2 THEN "Passive" ELSE "Both",
               created_ms |-> created_ms])

(***************************************************************************)
(* The frame: header (magic, version, payload length) and payload.         *)
(***************************************************************************)
frame(rec) ==
    LET payload == encode(rec) IN
    to_le_bytes(OB_MAGIC, 4) \o to_le_bytes(OB_VERSION, 2)
      \o to_le_bytes(Len(payload), 4) \o payload

\* read_from advancing by the payload length only
RECURSIVE read_from_loop_nohdr(_, _, _, _)
read_from_loop_nohdr(f, offset, max, out) ==
    IF max = 0 THEN out
    ELSE IF Len(f) - offset < HEADER_LEN THEN out
    ELSE
    LET hbuf    == SubSeq(f, offset + 1, offset + HEADER_LEN)
        magic   == from_le_bytes(SubSeq(hbuf, 1, 4))
        version == from_le_bytes(SubSeq(hbuf, 5, 6))
        plen    == from_le_bytes(SubSeq(hbuf, 7, 10))
    IN
    IF magic # OB_MAGIC \/ version # OB_VERSION THEN out
    ELSE IF plen > Len(f) - offset - HEADER_LEN THEN out
    ELSE
    LET payload == SubSeq(f, offset + HEADER_LEN + 1, offset + HEADER_LEN + plen)
        rec     == decode(payload)
    IN
    IF ~rec.some THEN out
    ELSE LET end == offset + plen IN
         read_from_loop_nohdr(f, end, max - 1,
                        Append(out, [start |-> offset, end |-> end, rec |-> rec.val]))

\* read_from ignoring the error of the payload read: the zero-filled buffer
\* holds what was read and is decoded
RECURSIVE read_from_loop_pad(_, _, _, _)
read_from_loop_pad(f, offset, max, out) ==
    IF max = 0 THEN out
    ELSE IF Len(f) - offset < HEADER_LEN THEN out
    ELSE
    LET hbuf    == SubSeq(f, offset + 1, offset + HEADER_LEN)
        magic   == from_le_bytes(SubSeq(hbuf, 1, 4))
        version == from_le_bytes(SubSeq(hbuf, 5, 6))
        plen    == from_le_bytes(SubSeq(hbuf, 7, 10))
    IN
    IF magic # OB_MAGIC \/ version # OB_VERSION THEN out
    ELSE IF plen > 4096 THEN out
    ELSE
    LET avail   == SubSeq(f, offset + HEADER_LEN + 1, Len(f))
        payload == [i \in 1..plen |-> IF i <= Len(avail) THEN avail[i] ELSE 0]
        rec     == decode(payload)
    IN
    IF ~rec.some THEN out
    ELSE LET end == offset + HEADER_LEN + plen IN
         read_from_loop_pad(f, end, max - 1,
                        Append(out, [start |-> offset, end |-> end, rec |-> rec.val]))

\* read_from looking at the magic only
RECURSIVE read_from_loop_any_version(_, _, _, _)
read_from_loop_any_version(f, offset, max, out) ==
    IF max = 0 THEN out
    ELSE IF Len(f) - offset < HEADER_LEN THEN out
    ELSE
    LET hbuf    == SubSeq(f, offset + 1, offset + HEADER_LEN)
        magic   == from_le_bytes(SubSeq(hbuf, 1, 4))
        plen    == from_le_bytes(SubSeq(hbuf, 7, 10))
    IN
    IF magic # OB_MAGIC THEN out
    ELSE IF plen > Len(f) - offset - HEADER_LEN THEN out
    ELSE
    LET payload == SubSeq(f, offset + HEADER_LEN + 1, offset + HEADER_LEN + plen)
        rec     == decode(payload)
    IN
    IF ~rec.some THEN out
    ELSE LET end == offset + HEADER_LEN + plen IN
         read_from_loop_any_version(f, end, max - 1,
                        Append(out, [start |-> offset, end |-> end, rec |-> rec.val]))

\* Outbox::read_from(offset, max) on a log file with content f:
\* the list of (start, end, rec), parsing stops silently at the first
\* short header, wrong magic or version, short payload or undecodable payload
RECURSIVE read_from_loop(_, _, _, _)
read_from_loop(f, offset, max, out) ==
    IF max = 0 THEN out
    ELSE IF Len(f) - offset < HEADER_LEN THEN out
    ELSE
    LET hbuf    == SubSeq(f, offset + 1, offset + HEADER_LEN)
        magic   == from_le_bytes(SubSeq(hbuf, 1, 4))
        version == from_le_bytes(SubSeq(hbuf, 5, 6))
        plen    == from_le_bytes(SubSeq(hbuf, 7, 10))
    IN
    IF magic # OB_MAGIC \/ version # OB_VERSION THEN out
    ELSE IF plen > Len(f) - offset - HEADER_LEN THEN out
    ELSE
    LET payload == SubSeq(f, offset + HEADER_LEN + 1, offset + HEADER_LEN + plen)
        rec     == decode(payload)
    IN
    IF ~rec.some THEN out
    ELSE LET end == offset + HEADER_LEN + plen IN
         read_from_loop(f, end, max - 1,
                        Append(out, [start |-> offset, end |-> end, rec |-> rec.val]))

read_from(f, offset, max) == read_from_loop(f, offset, max, <<>>)

\* a `max` no log of the model reaches (every frame has at least one byte)
Unbounded(f) == Len(f) + 1


\* Outbox::pending_count on log content f from the given cursor: counts
\* headers, seeking over each payload without reading or decoding it (a seek
\* past the end of the file succeeds, the next header read then fails)
RECURSIVE pending_count_loop(_, _, _)
pending_count_loop(f, offset, count) ==
    IF Len(f) - offset < HEADER_LEN THEN count
    ELSE
    LET hbuf    == SubSeq(f, offset + 1, offset + HEADER_LEN)
        magic   == from_le_bytes(SubSeq(hbuf, 1, 4))
        version == from_le_bytes(SubSeq(hbuf, 5, 6))
        plen    == from_le_bytes(SubSeq(hbuf, 7, 10))
    IN
    IF magic # OB_MAGIC \/ version # OB_VERSION THEN count
    ELSE IF plen > Len(f) THEN count + 1
    ELSE pending_count_loop(f, offset + HEADER_LEN + plen, count + 1)

(***************************************************************************)
(* The inputs of the model.                                                *)
(***************************************************************************)
\* idempotency keys and CQL texts handed to write_simple: "k", "I"
Keys == {<<107>>}
Stmts == {<<73>>}
\* SystemTime::now() in milliseconds, as read by append
NowMs == {300}
\* records handed to enqueue by a caller other than write_simple: one for
\* both clusters with a parameter blob, an empty key and its own created_ms
\* (the parameter-free records for one cluster come from write_simple)
Records ==
    {[idempotency_key |-> <<>>, statement |-> <<73, 78>>,
      params |-> << <<9>> >>, target |-> "Both", created_ms |-> 7]}

(***************************************************************************)
(* State.                                                                  *)
(***************************************************************************)
VARIABLES
    log,          \* content of outbox.log
    cursor_file,  \* content of outbox.cursor, NoFile while it does not exist
    up,           \* a ReplicationManager exists (the process is running)
    outbox,       \* ReplicationManager.outbox is Some
    keyspaces,    \* active_keyspace and passive_keyspace are Some
    pc,           \* position of the manager's caller: idle, replay, marks
    rp,           \* locals of the replay call in progress
    wm,           \* last_applied_log_id of the watermark row, per cluster
    applied,      \* history: start offsets of the records whose apply
                  \* succeeded on every cluster of their target
    acked,        \* history: the frames for which append returned Ok
    failed_writes,\* history: the (key, cql, cluster) of the executes that
                  \* failed inside the write_simple calls that have returned
                  \* to the running process
    appends,      \* history: number of appends started
    crashes       \* history: number of process deaths

VARIABLES
    fm_built,     \* a FailoverManager exists
    state,        \* FailoverManager.state: the FailoverState
    force_ready,  \* FailoverManager.force_ready
    clients,      \* DbClients handed to the ticks: which sessions are Some
    fh            \* history of the ticks, see NoTicks

\* the outbox and its manager
ovars == <<log, cursor_file, up, outbox, keyspaces, pc, rp, wm,
           applied, acked, failed_writes, appends, crashes>>
VARIABLES
    last_drift,   \* SyncWorker.last_drift
    max_replay_per_tick,  \* SyncWorker.max_replay_per_tick
    last_run,     \* what the last run_once gave back to run_loop, see run_loop
    conf,         \* the environment variables of the process and the
                  \* AppConfig that from_env made of them
    trip,         \* a record on its way through encode and decode, and what
                  \* read_from(0, 1) gave back for it
    boot,         \* main: where the startup is, the connect attempts made
                  \* per cluster, how far ensure_keyspaces is per cluster
    calm,         \* TRUE from the point on from which no record is enqueued
                  \* and every outbox write and every apply succeeds
    execs,        \* history of the statements replay_and_mark has executed, see NoExecs
    prep,         \* the prepared-statement caches of DbClients and the get_or_prepare calls in progress, see NoPrep
    steps,        \* the builder steps applied to the SyncWorker, in order
    rows          \* per cluster, the ids of the rows upserted into repl_watermark

\* the failover manager
fvars == <<fm_built, state, force_ready, clients, fh>>
\* the rest of the worker
wvars == <<last_drift, max_replay_per_tick>>
\* the repl_watermark tables
dvars == <<rows>>
\* the worker's loop
lvars == <<last_run>>
\* the worker's surroundings
cvars == <<calm>>
\* main
bvars == <<boot>>
\* the record codec
tvars == <<trip>>
\* the configuration
evars == <<conf>>
\* the executes of the replay
xvars == <<execs>>
\* the prepared-statement caches
pvars == <<prep>>
\* the builder
svars == <<steps>>

vars == <<log, cursor_file, up, outbox, keyspaces, pc, rp, wm,
          applied, acked, failed_writes, appends, crashes,
          fm_built, state, force_ready, clients, fh, last_drift,
          max_replay_per_tick, last_run, calm, boot, trip, conf, execs, prep,
          steps, rows>>

NoFile == <<256>>
\* rp: batch is the part of the batch not yet iterated over, processed and
\* marks are the locals of the code; the other fields are history of the
\* call: cursor and queue_len at its start, min(max, queue_len) at its start,
\* number of apply attempts, whether an apply failed, whether it was the
\* first one, and where that record starts
NoCall == [kind |-> "none", batch |-> <<>>, processed |-> 0, marks |-> <<>>,
           cursor0 |-> 0, qlen0 |-> 0, want |-> 0, tried |-> 0, failed |-> FALSE,
           first_failed |-> FALSE, failed_start |-> 0]

\* Outbox::load_cursor on a cursor file with content cf: read_exact of 8
\* bytes fails on a shorter file
cursor_ok(cf) == cf # NoFile /\ Len(cf) >= CURSOR_LEN
cursor_of(cf) == from_le_bytes(Take(cf, CURSOR_LEN))
load_cursor_ok == cursor_ok(cursor_file)
load_cursor == cursor_of(cursor_file)

\* to_drain taken as the queue length, whatever the cap
Min_uncapped(a, b) == b

Min(a, b) == IF a <= b THEN a ELSE b

\* Outbox::end_offset
end_offset == Len(log)

\* Outbox::pending_count
pending_count_of(f, cf) == pending_count_loop(f, cursor_of(cf), 0)
pending_count == pending_count_of(log, cursor_file)

\* ReplicationManager::queue_len: pending_count().unwrap_or(0)
queue_len_of(ob, f, cf) ==
    IF ob /\ cursor_ok(cf) THEN pending_count_of(f, cf) ELSE 0
queue_len == queue_len_of(outbox, log, cursor_file)

(***************************************************************************)
(* The failover manager's state.                                           *)
(***************************************************************************)
FAIL_THRESHOLD == 3
RECOVER_THRESHOLD == 5

\* FailoverState::default(); pending is an Option, last_switch says whether
\* the Option<Instant> is Some
FailoverState_default ==
    [primary |-> "Active",
     last_active_ok |-> FALSE,
     last_passive_ok |-> FALSE,
     consecutive_active_fail |-> 0,
     consecutive_active_success |-> 0,
     consecutive_passive_success |-> 0,
     pending |-> None,
     last_switch |-> FALSE]

\* SyncWorker::new(): the default of max_replay_per_tick
max_replay_default == 128
\* the values given to with_max_replay_per_tick: none, one record per tick,
\* and the default, above any queue length
ReplayCaps == {0, 1, max_replay_default}

\* main before init_clients is called: no connect attempt made, no keyspace
\* ensured
NotStarted ==
    [pc |-> "init_clients",
     tries |-> [c \in Cluster |-> 0],
     ens |-> [c \in Cluster |-> "none"],
     error |-> "none"]

\* no environment variable is set and from_env has not been called
NoEnv ==
    [n \in {"ACTIVE_DB_HOST", "PASSIVE_DB_HOST", "DB_HOST",
            "ACTIVE_DB_PORT", "PASSIVE_DB_PORT", "DB_PORT",
            "ACTIVE_DB_USERNAME", "PASSIVE_DB_USERNAME", "DB_USERNAME"} |-> None]

\* DbEndpoint::default(), the fields of the model, and the Passive endpoint
\* of AppConfig::default()
DbEndpoint_default ==
    [host |-> <<49, 50, 55, 46, 48, 46, 48, 46, 49>>, port |-> 9042,
     username |-> <<99, 97, 115, 115, 97, 110, 100, 114, 97>>]
AppConfig_default ==
    [active |-> DbEndpoint_default,
     passive |-> [DbEndpoint_default EXCEPT !.port = 9043]]

NoConf == [env |-> NoEnv, loaded |-> FALSE, cfg |-> AppConfig_default]

\* DbClients::default(): no session on either cluster
DbClients_default == [active |-> FALSE, passive |-> FALSE]

\* the field of DbClients holding the session of a cluster
session(cl, c) == IF c = "Active" THEN cl.active ELSE cl.passive

\* history of the ticks of one manager:
\*   ticks       ticks so far
\*   fail_streak length of the run of failing Active observations that ends
\*               at the last tick
\*   ok_run      length of the run of ok Active observations that ends at the
\*               last tick and started after the last switch
\*   probed      the last tick called ready_to_switch
\*   cleared     the last tick found a switch pending and left none pending
\*               without switching
\*   switches    commit_switch calls so far
\*   since       ticks after the one of the last commit_switch call (all
\*               ticks, as long as there has been none)
NoTicks == [ticks |-> 0, fail_streak |-> 0, ok_run |-> 0, probed |-> FALSE,
            cleared |-> FALSE, switches |-> 0, since |-> 0]

\* the tasks that call get_or_prepare on one DbClients, and the CQL texts
\* they ask for
Callers == {1, 2}
Texts == {"check", "other"}

\* a task outside get_or_prepare: cl, cql and ret are those of its last call
\* (ret "none" before the first one returns)
NoTask == [pc |-> "idle", cl |-> "Active", cql |-> "check", ret |-> "none"]

\* DbClients::default(), the caches: cache is the key set of each HashMap,
\* holder the task holding each Mutex (0: unlocked), task what each caller is
\* doing; calls counts the calls made and failed keeps the (cluster, text)
\* whose prepare has failed
NoPrep ==
    [cache |-> [c \in Cluster |-> {}],
     holder |-> [c \in Cluster |-> 0],
     task |-> [t \in Callers |-> NoTask],
     calls |-> 0,
     failed |-> {}]

ConfigRest ==
    /\ up = FALSE
    /\ outbox = FALSE
    /\ keyspaces = FALSE
    /\ pc = "idle"
    /\ rp = NoCall
    /\ wm = [c \in Cluster |-> -1]
    /\ applied = {}
    /\ acked = {}
    /\ failed_writes = {}
    /\ appends = 0
    /\ crashes = 0
    /\ fm_built = FALSE
    /\ state = FailoverState_default
    /\ force_ready = FALSE
    /\ clients = DbClients_default
    /\ fh = NoTicks
    /\ last_drift = None
    /\ max_replay_per_tick = max_replay_default
    /\ last_run = "none"
    /\ calm = FALSE
    /\ boot = NotStarted
    /\ prep = NoPrep
    /\ steps = <<>>
    /\ rows = [c \in Cluster |-> {}]

\* no record is on its way through the codec
NoTrip ==
    [stage |-> "none",
     rec |-> new_simple(<<>>, <<>>, "Active"),
     bytes |-> <<>>, back |-> None, did_read |-> FALSE, read |-> <<>>,
     at |-> 0, max |-> 0]

\* history of the executes of replay_and_mark, kept while on is TRUE:
\*   ok     the (cluster, start offset of the record) of the executes that
\*          succeeded
\*   again  the (cluster, start offset) executed once more after an execute
\*          that had succeeded
NoExecs == [on |-> FALSE, ok |-> {}, again |-> {}]

\* no outbox.cursor yet, no environment looked at
Unbuilt ==
    conf = NoConf /\ cursor_file = NoFile /\ execs = NoExecs /\ ConfigRest

\* no outbox.log yet
Fresh == log = <<>> /\ Unbuilt

Init == Fresh /\ trip = NoTrip

(***************************************************************************)
(* Construction.                                                           *)
(***************************************************************************)
\* open writing the cursor file without looking whether it exists
open_reset(ob, ks) ==
    /\ ~up
    /\ up' = TRUE
    /\ outbox' = ob
    /\ keyspaces' = ks
    /\ cursor_file' = IF ob THEN to_le_bytes(0, CURSOR_LEN) ELSE cursor_file
    /\ UNCHANGED tvars
    /\ UNCHANGED evars
    /\ UNCHANGED svars
    /\ UNCHANGED pvars
    /\ UNCHANGED xvars
    /\ UNCHANGED lvars
    /\ UNCHANGED cvars
    /\ UNCHANGED bvars
    /\ UNCHANGED fvars
    /\ UNCHANGED wvars
    /\ UNCHANGED dvars
    /\ UNCHANGED <<log, pc, rp, wm, applied, acked, failed_writes, appends,
                   crashes>>

\* ReplicationManager::new() (ob = FALSE) or with_outbox_dir(dir) (ob = TRUE),
\* followed or not by with_keyspaces; Outbox::open creates the cursor file
\* holding 0 only if it does not exist and never touches an existing log
open(ob, ks) ==
    /\ ~up
    /\ up' = TRUE
    /\ outbox' = ob
    /\ keyspaces' = ks
    /\ cursor_file' = IF ob /\ cursor_file = NoFile
                      THEN to_le_bytes(0, CURSOR_LEN) ELSE cursor_file
    /\ UNCHANGED tvars
    /\ UNCHANGED evars
    /\ UNCHANGED svars
    /\ UNCHANGED pvars
    /\ UNCHANGED xvars
    /\ UNCHANGED lvars
    /\ UNCHANGED cvars
    /\ UNCHANGED bvars
    /\ UNCHANGED fvars
    /\ UNCHANGED wvars
    /\ UNCHANGED dvars
    /\ UNCHANGED <<log, pc, rp, wm, applied, acked, failed_writes, appends,
                   crashes>>

(***************************************************************************)
(* Outbox::append and ReplicationManager::enqueue.                         *)
(***************************************************************************)
\* the record as append writes it: created_ms = 0 is replaced by the clock
stamped(rec, now) ==
    IF rec.created_ms = 0 THEN [rec EXCEPT !.created_ms = now] ELSE rec

\* offset returned by append: file length before the write plus the frame
append_end(rec, now) == Len(log) + HEADER_LEN + Len(encode(stamped(rec, now)))

\* Err("outbox not configured") of a manager without outbox changes nothing;
\* the offset append returns is kept in acked
enqueue(rec, now) ==
    /\ up /\ pc = "idle"
    /\ IF outbox
       THEN /\ appends < MaxAppends
            /\ log' = log \o frame(stamped(rec, now))
            /\ acked' = acked \cup {[start |-> Len(log),
                                     end |-> append_end(rec, now),
                                     rec |-> stamped(rec, now)]}
            /\ appends' = appends + 1
       ELSE UNCHANGED <<log, acked, appends>>
    /\ UNCHANGED tvars
    /\ UNCHANGED evars
    /\ UNCHANGED svars
    /\ UNCHANGED pvars
    /\ UNCHANGED xvars
    /\ UNCHANGED lvars
    /\ UNCHANGED cvars
    /\ UNCHANGED bvars
    /\ UNCHANGED fvars
    /\ UNCHANGED wvars
    /\ UNCHANGED dvars
    /\ UNCHANGED <<cursor_file, up, outbox, keyspaces, pc, rp, wm, applied,
                   failed_writes, crashes>>


(***************************************************************************)
(* ReplicationManager::write_simple.                                       *)
(***************************************************************************)
\* `let _ = self.enqueue(rec)` on the files s = [log, acked, appends]:
\* the frame is appended when the outbox is configured, and the error of a
\* manager without outbox is dropped
ws_enqueue(s, rec, now) ==
    IF outbox
    THEN [log |-> s.log \o frame(stamped(rec, now)),
          acked |-> s.acked \cup
                      {[start |-> Len(s.log),
                        end |-> Len(s.log) + Len(frame(stamped(rec, now))),
                        rec |-> stamped(rec, now)]},
          appends |-> s.appends + 1]
    ELSE s

\* one arm of the match: execute on the cluster, enqueue for it on failure
ws_target(s, key, cql, cl, ok, now) ==
    IF ~ok THEN ws_enqueue(s, new_simple(key, cql, cl), now) ELSE s

\* the clusters a record is meant for
clusters_of(target) ==
    IF target = "Both" THEN Cluster ELSE {target}

\* the value write_simple returns: any_ok
any_ok(target, ok_a, ok_p) ==
    IF target = "Active" THEN ok_a
    ELSE IF target = "Passive" THEN ok_p
    ELSE ok_a \/ ok_p

\* ok_a, ok_p: outcome of exec_unpaged_session on Active and on Passive (an
\* absent session is a failure); the consistency override changes neither
\* (a process death between the two arms of Both leaves the files as a
\* returned call for Active alone followed by crash leaves them)
write_simple(key, cql, target, ok_a, ok_p, now) ==
    LET s0 == [log |-> log, acked |-> acked, appends |-> appends]
        s1 == IF target = "Active" THEN ws_target(s0, key, cql, "Active", ok_a, now)
              ELSE IF target = "Passive" THEN ws_target(s0, key, cql, "Passive", ok_p, now)
              ELSE ws_target(ws_target(s0, key, cql, "Active", ok_a, now),
                             key, cql, "Passive", ok_p, now)
    IN
    /\ up /\ pc = "idle"
    /\ s1.appends <= MaxAppends
    /\ log' = s1.log
    /\ acked' = s1.acked
    /\ appends' = s1.appends
    /\ failed_writes' = failed_writes \cup
          {[key |-> key, cql |-> cql, cl |-> c] :
             c \in {d \in clusters_of(target) :
                      ~(IF d = "Active" THEN ok_a ELSE ok_p)}}
    /\ UNCHANGED tvars
    /\ UNCHANGED evars
    /\ UNCHANGED svars
    /\ UNCHANGED pvars
    /\ UNCHANGED xvars
    /\ UNCHANGED lvars
    /\ UNCHANGED cvars
    /\ UNCHANGED bvars
    /\ UNCHANGED fvars
    /\ UNCHANGED wvars
    /\ UNCHANGED dvars
    /\ UNCHANGED <<cursor_file, up, outbox, keyspaces, pc, rp, wm, applied, crashes>>

(***************************************************************************)
(* ReplicationManager::replay_and_mark and replay_with, one step per       *)
(* suspension point.                                                       *)
(***************************************************************************)
\* a batch read from the start of the log instead of the cursor
read_batch_from_start(max) == read_from(log, 0, max)

\* let cursor = ob.load_cursor()?; let batch = ob.read_from(cursor, max)?
read_batch(max) == read_from(log, load_cursor, max)

\* kind = "mark": replay_and_mark(max, clients); kind = "with": replay_with(max, apply);
\* without outbox the call returns Ok(0) at once, and with an unreadable
\* cursor file it returns the error of load_cursor
replay_begin(kind, max) ==
    /\ up /\ pc = "idle"
    /\ IF ~outbox
       THEN UNCHANGED <<pc, rp>>
       ELSE IF ~load_cursor_ok
       THEN UNCHANGED <<pc, rp>>
       ELSE LET batch == read_batch(max) IN
            /\ rp' = [kind |-> kind, batch |-> batch, processed |-> 0,
                      marks |-> <<>>, cursor0 |-> load_cursor,
                      qlen0 |-> queue_len, want |-> Min(max, queue_len),
                      tried |-> 0, failed |-> FALSE,
                      first_failed |-> FALSE, failed_start |-> 0]
            /\ pc' = IF batch = <<>> THEN "marks" ELSE "replay"
    /\ UNCHANGED tvars
    /\ UNCHANGED evars
    /\ UNCHANGED svars
    /\ UNCHANGED pvars
    /\ UNCHANGED xvars
    /\ UNCHANGED lvars
    /\ UNCHANGED cvars
    /\ UNCHANGED bvars
    /\ UNCHANGED fvars
    /\ UNCHANGED wvars
    /\ UNCHANGED dvars
    /\ UNCHANGED <<log, cursor_file, up, outbox, keyspaces, wm, applied, acked,
                   failed_writes, appends, crashes>>

\* applied_ok with `a || b` for a record meant for both clusters
applied_ok_any(kind, target, a, b) ==
    IF kind = "with" THEN a
    ELSE IF target = "Active" THEN a
    ELSE IF target = "Passive" THEN b
    ELSE a \/ b

\* the value of applied_ok: a is the outcome on Active (for replay_with: of
\* the apply closure), b the outcome on Passive
applied_ok(kind, target, a, b) ==
    IF kind = "with" THEN a
    ELSE IF target = "Active" THEN a
    ELSE IF target = "Passive" THEN b
    ELSE a /\ b

\* the clusters on which this attempt has applied the record
applied_on(kind, target, a, b) ==
    IF kind = "with" THEN (IF a THEN Cluster ELSE {})
    ELSE {c \in Cluster :
            /\ c = "Active" => a /\ target \in {"Active", "Both"}
            /\ c = "Passive" => b /\ target \in {"Passive", "Both"}}

\* execs after the executes of one iteration on the batch entry e: replay_with
\* hands the record to its closure, replay_and_mark executes the statement
\* on every cluster of the target, whatever the outcome on the other one
executed(x, kind, e, a, b) ==
    IF ~x.on \/ kind = "with" THEN x
    ELSE [x EXCEPT
            !.again = @ \cup {<<c, e.start>> : c \in
                                {d \in clusters_of(e.rec.target) :
                                   <<d, e.start>> \in x.ok}},
            !.ok = @ \cup {<<c, e.start>> : c \in
                             applied_on(kind, e.rec.target, a, b)}]

\* marks.push(..) for a record applied by replay_and_mark
push_marks(marks, target, end) ==
    IF target = "Active" THEN Append(marks, [cl |-> "Active", id |-> end])
    ELSE IF target = "Passive" THEN Append(marks, [cl |-> "Passive", id |-> end])
    ELSE marks \o <<[cl |-> "Active", id |-> end], [cl |-> "Passive", id |-> end]>>

\* store_cursor writing the offset big-endian
RECURSIVE to_be_bytes(_, _)
to_be_bytes(n, w) ==
    IF w = 0 THEN <<>> ELSE to_be_bytes(n \div 256, w - 1) \o <<n % 256>>

store_cursor_be(offset, st) ==
    IF st = "ok" THEN to_be_bytes(offset, CURSOR_LEN)
    ELSE IF st = "err_open" THEN cursor_file
    ELSE <<>>

\* Outbox::store_cursor (std::fs::write: truncate, then write 8 bytes);
\* st = "ok", "err_open" (nothing written) or "err_write" (truncated only)
store_cursor(offset, st) ==
    IF st = "ok" THEN to_le_bytes(offset, CURSOR_LEN)
    ELSE IF st = "err_open" THEN cursor_file
    ELSE <<>>

\* `continue` in place of `break`
on_failure_continue(batch) == Tail(batch)

\* `break` on a failed apply: nothing of the batch is left to iterate over
on_failure(batch) == <<>>

\* one iteration of the loop over the batch; a failed store_cursor ends the
\* call with its error
replay_step(a, b, st) ==
    /\ up /\ pc = "replay" /\ rp.batch # <<>>
    /\ UNCHANGED tvars
    /\ UNCHANGED evars
    /\ UNCHANGED svars
    /\ UNCHANGED pvars
    /\ UNCHANGED cvars
    /\ UNCHANGED bvars
    /\ LET e   == Head(rp.batch)
           ok  == applied_ok(rp.kind, e.rec.target, a, b)
       IN
       /\ execs' = executed(execs, rp.kind, e, a, b)
       /\ applied' = IF clusters_of(e.rec.target) \subseteq
                          applied_on(rp.kind, e.rec.target, a, b)
                     THEN applied \cup {e.start} ELSE applied
       /\ last_run' = IF rp.kind = "once" /\ ok /\ st # "ok"
                      THEN "err_store_cursor" ELSE last_run
       /\ IF ok
          THEN /\ cursor_file' = store_cursor(e.end, st)
               /\ IF st = "ok"
                  THEN /\ rp' = [rp EXCEPT
                                   !.batch = Tail(rp.batch),
                                   !.processed = rp.processed + 1,
                                   !.tried = rp.tried + 1,
                                   !.marks = IF rp.kind # "with"
                                             THEN push_marks(rp.marks, e.rec.target, e.end)
                                             ELSE rp.marks]
                       /\ pc' = IF Tail(rp.batch) = <<>> THEN "marks" ELSE "replay"
                  ELSE /\ rp' = NoCall
                       /\ pc' = "idle"
          ELSE /\ st = "ok"
               /\ rp' = [rp EXCEPT
                           !.batch = on_failure(rp.batch),
                           !.tried = rp.tried + 1,
                           !.failed = TRUE,
                           !.first_failed = rp.first_failed \/ rp.tried = 0,
                           !.failed_start = IF rp.failed THEN rp.failed_start
                                            ELSE e.start]
               /\ pc' = IF on_failure(rp.batch) = <<>> THEN "marks" ELSE "replay"
               /\ UNCHANGED cursor_file
    /\ UNCHANGED fvars
    /\ UNCHANGED wvars
    /\ UNCHANGED dvars
    /\ UNCHANGED <<log, up, outbox, keyspaces, wm, acked, failed_writes, appends,
                   crashes>>

\* the id of the row that write_watermark_for upserts
write_watermark_for_id == 0

\* write_watermark_cluster for the first mark left: c1, c2 are the outcomes
\* of the CREATE TABLE and of the upsert; without keyspace nothing is sent
replay_mark(c1, c2) ==
    /\ up /\ pc = "marks" /\ rp.marks # <<>>
    /\ LET m == Head(rp.marks) IN
       /\ wm' = IF keyspaces /\ c2 THEN [wm EXCEPT ![m.cl] = m.id] ELSE wm
       /\ rows' = IF keyspaces /\ c2
                  THEN [rows EXCEPT ![m.cl] = @ \cup {write_watermark_for_id}]
                  ELSE rows
    /\ rp' = [rp EXCEPT !.marks = Tail(rp.marks)]
    /\ UNCHANGED tvars
    /\ UNCHANGED evars
    /\ UNCHANGED svars
    /\ UNCHANGED pvars
    /\ UNCHANGED xvars
    /\ UNCHANGED lvars
    /\ UNCHANGED cvars
    /\ UNCHANGED bvars
    /\ UNCHANGED fvars
    /\ UNCHANGED wvars
    /\ UNCHANGED <<log, cursor_file, up, outbox, keyspaces, pc, applied,
                   acked, failed_writes, appends, crashes>>

\* the call returns Ok(processed), the value of rp.processed; a call made by
\* run_once returns into run_once, which keeps the value in its own
\* `processed` until it returns
replay_return ==
    /\ up /\ pc = "marks" /\ rp.marks = <<>>
    /\ pc' = IF rp.kind = "once" THEN "heartbeat" ELSE "idle"
    /\ rp' = IF rp.kind = "once" THEN rp ELSE NoCall
    /\ UNCHANGED tvars
    /\ UNCHANGED evars
    /\ UNCHANGED svars
    /\ UNCHANGED pvars
    /\ UNCHANGED xvars
    /\ UNCHANGED lvars
    /\ UNCHANGED cvars
    /\ UNCHANGED bvars
    /\ UNCHANGED fvars
    /\ UNCHANGED wvars
    /\ UNCHANGED dvars
    /\ UNCHANGED <<log, cursor_file, up, outbox, keyspaces, wm, applied, acked,
                   failed_writes, appends, crashes>>

(***************************************************************************)
(* Process death.                                                          *)
(***************************************************************************)
\* the manager is dropped: between two calls, or at a suspension point of a
\* replay; the files stay as they are
crash ==
    /\ up /\ crashes < MaxCrashes
    /\ up' = FALSE /\ outbox' = FALSE /\ keyspaces' = FALSE
    /\ pc' = "idle" /\ rp' = NoCall
    /\ crashes' = crashes + 1
    /\ failed_writes' = {}
    /\ UNCHANGED tvars
    /\ UNCHANGED evars
    /\ UNCHANGED svars
    /\ UNCHANGED pvars
    /\ UNCHANGED xvars
    /\ UNCHANGED lvars
    /\ UNCHANGED cvars
    /\ UNCHANGED bvars
    /\ UNCHANGED fvars
    /\ UNCHANGED wvars
    /\ UNCHANGED dvars
    /\ UNCHANGED <<log, cursor_file, wm, applied, acked, appends>>

\* the lengths at which a frame of n bytes is cut in the model: after the
\* write of the magic, after the last write of the header, and inside the
\* write of the payload, one byte short of the whole frame
torn_cuts(n) == {4, HEADER_LEN, n - 1}

\* the process dies inside Outbox::append, after k bytes of the frame have
\* reached the file and before append returns
crash_in_append(rec, now, k) ==
    /\ up /\ outbox /\ pc = "idle"
    /\ appends < MaxAppends /\ crashes < MaxCrashes
    /\ k \in torn_cuts(Len(frame(stamped(rec, now))))
    /\ log' = log \o Take(frame(stamped(rec, now)), k)
    /\ appends' = appends + 1
    /\ up' = FALSE /\ outbox' = FALSE /\ keyspaces' = FALSE
    /\ pc' = "idle" /\ rp' = NoCall
    /\ crashes' = crashes + 1
    /\ failed_writes' = {}
    /\ UNCHANGED tvars
    /\ UNCHANGED evars
    /\ UNCHANGED svars
    /\ UNCHANGED pvars
    /\ UNCHANGED xvars
    /\ UNCHANGED lvars
    /\ UNCHANGED cvars
    /\ UNCHANGED bvars
    /\ UNCHANGED fvars
    /\ UNCHANGED wvars
    /\ UNCHANGED dvars
    /\ UNCHANGED <<cursor_file, wm, applied, acked>>

\* the process dies inside Outbox::store_cursor, between the truncation and
\* the write of std::fs::write, after the record has been applied
crash_in_store_cursor(a, b) ==
    /\ up /\ pc = "replay" /\ rp.batch # <<>>
    /\ crashes < MaxCrashes
    /\ LET e == Head(rp.batch) IN
       /\ applied_ok(rp.kind, e.rec.target, a, b)
       /\ execs' = executed(execs, rp.kind, e, a, b)
       /\ applied' = IF clusters_of(e.rec.target) \subseteq
                          applied_on(rp.kind, e.rec.target, a, b)
                     THEN applied \cup {e.start} ELSE applied
    /\ cursor_file' = <<>>
    /\ up' = FALSE /\ outbox' = FALSE /\ keyspaces' = FALSE
    /\ pc' = "idle" /\ rp' = NoCall
    /\ crashes' = crashes + 1
    /\ failed_writes' = {}
    /\ UNCHANGED tvars
    /\ UNCHANGED evars
    /\ UNCHANGED svars
    /\ UNCHANGED pvars
    /\ UNCHANGED lvars
    /\ UNCHANGED cvars
    /\ UNCHANGED bvars
    /\ UNCHANGED fvars
    /\ UNCHANGED wvars
    /\ UNCHANGED dvars
    /\ UNCHANGED <<log, wm, acked, appends>>

(***************************************************************************)
(* Specification.                                                          *)
(***************************************************************************)
Next ==
    \/ \E ob \in BOOLEAN, ks \in BOOLEAN : (ks => ob) /\ open(ob, ks)
    \/ \E rec \in Records, now \in NowMs : enqueue(rec, now)
    \/ \E key \in Keys, cql \in Stmts, target \in OutboxTarget,
          ok_a \in BOOLEAN, ok_p \in BOOLEAN, now \in NowMs :
            write_simple(key, cql, target, ok_a, ok_p, now)
    \/ \E kind \in {"mark", "with"}, max \in 0..MaxBatch : replay_begin(kind, max)
    \/ \E a \in BOOLEAN, b \in BOOLEAN, st \in {"ok", "err_open", "err_write"} :
            replay_step(a, b, st)
    \/ \E c1 \in BOOLEAN, c2 \in BOOLEAN : replay_mark(c1, c2)
    \/ replay_return
    \/ crash
    \/ \E rec \in Records, now \in NowMs, k \in 1..40 : crash_in_append(rec, now, k)
    \/ \E a \in BOOLEAN, b \in BOOLEAN : crash_in_store_cursor(a, b)

Spec == Init /\ [][Next]_vars

(***************************************************************************)
(* The failover manager.                                                   *)
(***************************************************************************)
\* FailoverState::update_with, first half: the last status and the counters
\* (saturating_add: the counters stay far below u32::MAX within MaxTicks)
update_counters(st, active_ok, passive_ok) ==
    [st EXCEPT
       !.last_active_ok = active_ok,
       !.last_passive_ok = passive_ok,
       !.consecutive_active_success = IF active_ok THEN @ + 1 ELSE 0,
       !.consecutive_active_fail = IF active_ok THEN 0 ELSE @ + 1,
       !.consecutive_passive_success = IF passive_ok THEN @ + 1 ELSE 0]

\* the match of update_with asking for one failure more than FAIL_THRESHOLD
pending_intent_late(st, active_ok, passive_ok) ==
    IF st.primary = "Active"
    THEN IF ~active_ok /\ st.consecutive_active_fail > FAIL_THRESHOLD
            /\ passive_ok
         THEN Some("Passive") ELSE None
    ELSE IF active_ok /\ st.consecutive_active_success >= RECOVER_THRESHOLD
         THEN Some("Active") ELSE None

\* the match of update_with asking for one success more than
\* RECOVER_THRESHOLD
pending_intent_slow(st, active_ok, passive_ok) ==
    IF st.primary = "Active"
    THEN IF ~active_ok /\ st.consecutive_active_fail >= FAIL_THRESHOLD
            /\ passive_ok
         THEN Some("Passive") ELSE None
    ELSE IF active_ok /\ st.consecutive_active_success > RECOVER_THRESHOLD
         THEN Some("Active") ELSE None

\* the match of update_with not looking at passive_ok
pending_intent_blind(st, active_ok, passive_ok) ==
    IF st.primary = "Active"
    THEN IF ~active_ok /\ st.consecutive_active_fail >= FAIL_THRESHOLD
         THEN Some("Passive") ELSE None
    ELSE IF active_ok /\ st.consecutive_active_success >= RECOVER_THRESHOLD
         THEN Some("Active") ELSE None

\* the match of update_with asking for one success less than
\* RECOVER_THRESHOLD
pending_intent_eager(st, active_ok, passive_ok) ==
    IF st.primary = "Active"
    THEN IF ~active_ok /\ st.consecutive_active_fail >= FAIL_THRESHOLD
            /\ passive_ok
         THEN Some("Passive") ELSE None
    ELSE IF active_ok /\ st.consecutive_active_success >= RECOVER_THRESHOLD - 1
         THEN Some("Active") ELSE None

\* the match of update_with asking for counters that have just reached their
\* thresholds
pending_intent_once(st, active_ok, passive_ok) ==
    IF st.primary = "Active"
    THEN IF ~active_ok /\ st.consecutive_active_fail = FAIL_THRESHOLD
            /\ passive_ok
         THEN Some("Passive") ELSE None
    ELSE IF active_ok /\ st.consecutive_active_success = RECOVER_THRESHOLD
         THEN Some("Active") ELSE None

\* update_with keeping a pending switch once it is set
pending_intent_sticky(st, active_ok, passive_ok) ==
    IF st.pending.some THEN st.pending
    ELSE IF st.primary = "Active"
    THEN IF ~active_ok /\ st.consecutive_active_fail >= FAIL_THRESHOLD
            /\ passive_ok
         THEN Some("Passive") ELSE None
    ELSE IF active_ok /\ st.consecutive_active_success >= RECOVER_THRESHOLD
         THEN Some("Active") ELSE None

\* FailoverState::update_with, second half: the match that assigns pending,
\* read on the counters just updated
pending_intent(st, active_ok, passive_ok) ==
    IF st.primary = "Active"
    THEN IF ~active_ok /\ st.consecutive_active_fail >= FAIL_THRESHOLD
            /\ passive_ok
         THEN Some("Passive") ELSE None
    ELSE IF active_ok /\ st.consecutive_active_success >= RECOVER_THRESHOLD
         THEN Some("Active") ELSE None

\* FailoverState::update_with
update_with(st, active_ok, passive_ok) ==
    LET c == update_counters(st, active_ok, passive_ok)
    IN  [c EXCEPT !.pending = pending_intent(c, active_ok, passive_ok)]

\* commit_switch leaving the pending switch in place
commit_switch_keeps_pending(st, to) ==
    [st EXCEPT
       !.primary = to,
       !.last_switch = TRUE,
       !.consecutive_active_fail = 0,
       !.consecutive_active_success = 0,
       !.consecutive_passive_success = 0]

\* FailoverState::commit_switch; last_switch becomes Some(Instant::now())
commit_switch(st, to) ==
    [st EXCEPT
       !.primary = to,
       !.last_switch = TRUE,
       !.consecutive_active_fail = 0,
       !.consecutive_active_success = 0,
       !.consecutive_passive_success = 0,
       !.pending = None]

\* ready_to_switch taking the probe's answer without looking whether the
\* target has a session
ready_to_switch_any(cl, from, to, ping) ==
    IF from = to THEN TRUE ELSE ping

\* DefaultSyncCheck::ready_to_switch; ping is the answer of the target's
\* session to the probe query, asked only if that session exists
ready_to_switch(cl, from, to, ping) ==
    IF from = to THEN TRUE
    ELSE IF to = "Passive" THEN cl.passive /\ ping
    ELSE cl.active /\ ping

\* FailoverManager::maybe_switch consults the probe: a switch is pending and
\* force_ready did not short-circuit the call
consults(st, force) == st.pending.some /\ ~force

\* FailoverManager::maybe_switch
maybe_switch(st, force, cl, ping) ==
    IF st.pending.some
    THEN IF force \/ ready_to_switch(cl, st.primary, st.pending.val, ping)
         THEN commit_switch(st, st.pending.val)
         ELSE st
    ELSE st

\* FailoverManager::last_status
last_status(st) == <<st.last_active_ok, st.last_passive_ok>>

\* FailoverManager::new().with_force_ready(v), and the DbClients its ticks
\* are given: sa, sp say which sessions exist
failover_new(v, sa, sp) ==
    /\ ~fm_built
    /\ fm_built' = TRUE
    /\ state' = FailoverState_default
    /\ force_ready' = v
    /\ clients' = [active |-> sa, passive |-> sp]
    /\ fh' = NoTicks
    /\ UNCHANGED tvars
    /\ UNCHANGED evars
    /\ UNCHANGED svars
    /\ UNCHANGED pvars
    /\ UNCHANGED xvars
    /\ UNCHANGED lvars
    /\ UNCHANGED cvars
    /\ UNCHANGED bvars
    /\ UNCHANGED ovars
    /\ UNCHANGED wvars
    /\ UNCHANGED dvars

\* the body shared by tick and tick_with_status: update_with, maybe_switch
observe(a_ok, p_ok, ping) ==
    LET u == update_with(state, a_ok, p_ok)
        n == maybe_switch(u, force_ready, clients, ping)
        switched == u.pending.some /\ n.primary = u.pending.val
    IN  /\ state' = n
        /\ fh' = [ticks |-> fh.ticks + 1,
                  fail_streak |-> IF a_ok THEN 0 ELSE fh.fail_streak + 1,
                  ok_run |-> IF switched \/ ~a_ok THEN 0 ELSE fh.ok_run + 1,
                  probed |-> consults(u, force_ready),
                  cleared |-> state.pending.some /\ ~u.pending.some,
                  switches |-> fh.switches + (IF switched THEN 1 ELSE 0),
                  since |-> IF switched THEN 0 ELSE fh.since + 1]

\* FailoverManager::tick_with_status(clients, a_ok, p_ok)
tick_with_status(a_ok, p_ok, ping) ==
    /\ fm_built
    /\ fh.ticks < MaxTicks
    /\ observe(a_ok, p_ok, ping)
    /\ UNCHANGED tvars
    /\ UNCHANGED evars
    /\ UNCHANGED svars
    /\ UNCHANGED pvars
    /\ UNCHANGED xvars
    /\ UNCHANGED lvars
    /\ UNCHANGED cvars
    /\ UNCHANGED bvars
    /\ UNCHANGED <<fm_built, force_ready, clients>>
    /\ UNCHANGED ovars
    /\ UNCHANGED wvars
    /\ UNCHANGED dvars

\* FailoverManager::tick(clients): db_health pings both sessions, an absent
\* session answers false
tick(a_ans, p_ans, ping) ==
    /\ fm_built
    /\ fh.ticks < MaxTicks
    /\ observe(clients.active /\ a_ans, clients.passive /\ p_ans, ping)
    /\ UNCHANGED tvars
    /\ UNCHANGED evars
    /\ UNCHANGED svars
    /\ UNCHANGED pvars
    /\ UNCHANGED xvars
    /\ UNCHANGED lvars
    /\ UNCHANGED cvars
    /\ UNCHANGED bvars
    /\ UNCHANGED <<fm_built, force_ready, clients>>
    /\ UNCHANGED ovars
    /\ UNCHANGED wvars
    /\ UNCHANGED dvars

FailoverNext ==
    \/ \E v, sa, sp \in BOOLEAN : failover_new(v, sa, sp)
    \/ \E a, p, ping \in BOOLEAN : tick_with_status(a, p, ping)
    \/ \E a, p, ping \in BOOLEAN : tick(a, p, ping)

FailoverSpec == Init /\ [][FailoverNext]_vars

(***************************************************************************)
(* The sync worker.                                                        *)
(***************************************************************************)
\* SyncWorker::new(): the defaults of the worker's configuration
drift_rec_threshold == 100
drift_bytes_threshold == 1000000

\* records routed to one cluster, as write_simple leaves them in the outbox
TargetedRecords ==
    {[idempotency_key |-> <<>>, statement |-> <<73, 78>>,
      params |-> << <<9>> >>, target |-> "Active", created_ms |-> 7]}

\* drift_status reporting healthy when either threshold is kept
drift_status_either(rec_threshold, bytes_threshold) ==
    IF ~outbox THEN [ok |-> TRUE, val |-> None]
    ELSE IF ~load_cursor_ok THEN [ok |-> FALSE, val |-> None]
    ELSE LET cursor == load_cursor
             end == end_offset
             pending_records == pending_count
             pending_bytes == IF end >= cursor THEN end - cursor ELSE 0
         IN  [ok |-> TRUE,
              val |-> Some([pending_records |-> pending_records,
                            pending_bytes |-> pending_bytes,
                            cursor |-> cursor,
                            end |-> end,
                            healthy |-> pending_records <= rec_threshold
                                        \/ pending_bytes <= bytes_threshold])]

\* ReplicationManager::drift_status: Err if the cursor cannot be read,
\* Ok(None) without outbox
drift_status(rec_threshold, bytes_threshold) ==
    IF ~outbox THEN [ok |-> TRUE, val |-> None]
    ELSE IF ~load_cursor_ok THEN [ok |-> FALSE, val |-> None]
    ELSE LET cursor == load_cursor
             end == end_offset
             pending_records == pending_count
             pending_bytes == IF end >= cursor THEN end - cursor ELSE 0
         IN  [ok |-> TRUE,
              val |-> Some([pending_records |-> pending_records,
                            pending_bytes |-> pending_bytes,
                            cursor |-> cursor,
                            end |-> end,
                            healthy |-> pending_records <= rec_threshold
                                        /\ pending_bytes <= bytes_threshold])]

\* SyncWorker::new() followed or not by with_outbox_dir(dir) (ob),
\* with_keyspaces (ks) and with_max_replay_per_tick(max); sa, sp say which
\* sessions the DbClients handed to run_once hold
worker_new(ob, ks, sa, sp, max) ==
    /\ ~up /\ ~fm_built
    /\ up' = TRUE
    /\ outbox' = ob
    /\ keyspaces' = ks
    /\ cursor_file' = IF ob /\ cursor_file = NoFile
                      THEN to_le_bytes(0, CURSOR_LEN) ELSE cursor_file
    /\ fm_built' = TRUE
    /\ state' = FailoverState_default
    /\ force_ready' = FALSE
    /\ clients' = [active |-> sa, passive |-> sp]
    /\ fh' = NoTicks
    /\ last_drift' = None
    /\ max_replay_per_tick' = max
    /\ last_run' = "none"
    /\ UNCHANGED tvars
    /\ UNCHANGED evars
    /\ UNCHANGED svars
    /\ UNCHANGED pvars
    /\ UNCHANGED xvars
    /\ UNCHANGED cvars
    /\ UNCHANGED bvars
    /\ UNCHANGED dvars
    /\ UNCHANGED <<log, pc, rp, wm, applied, acked, failed_writes, appends,
                   crashes>>

\* SyncWorker::run_loop: `loop { match run_once { Ok => {}, Err(e) =>
\* println }; sleep }` goes on to the next run_once whatever the last one
\* returned: "none" (no run_once has returned yet), "ok", or the error
\* "err_load_cursor" (the cursor could not be read) or "err_store_cursor"
run_loop(last) == TRUE

\* the run_once calls one run_loop makes in the model: MaxRuns of them, and
\* one more for each record the log can hold once no record is enqueued any
\* more
runs_allowed == IF calm THEN MaxRuns + MaxAppends ELSE MaxRuns

\* SyncWorker::run_once up to the first record of the batch: the failover
\* tick, then replay_and_mark(to_drain) if there is something to drain; an
\* unreadable cursor ends run_once with the error of load_cursor
run_once_begin(a_ans, p_ans, ping) ==
    /\ up /\ fm_built /\ pc = "idle"
    /\ run_loop(last_run)
    /\ fh.ticks < runs_allowed
    /\ UNCHANGED tvars
    /\ UNCHANGED evars
    /\ UNCHANGED svars
    /\ UNCHANGED pvars
    /\ UNCHANGED xvars
    /\ UNCHANGED cvars
    /\ UNCHANGED bvars
    /\ observe(clients.active /\ a_ans, clients.passive /\ p_ans, ping)
    /\ LET to_drain == Min(max_replay_per_tick, queue_len) IN
       IF outbox /\ max_replay_per_tick > 0 /\ to_drain > 0
       THEN IF ~load_cursor_ok
            THEN pc' = "idle" /\ rp' = NoCall /\ last_run' = "err_load_cursor"
            ELSE LET batch == read_batch(to_drain) IN
                 /\ rp' = [kind |-> "once", batch |-> batch, processed |-> 0,
                           marks |-> <<>>, cursor0 |-> load_cursor,
                           qlen0 |-> queue_len, want |-> to_drain,
                           tried |-> 0, failed |-> FALSE,
                           first_failed |-> FALSE, failed_start |-> 0]
                 /\ pc' = IF batch = <<>> THEN "marks" ELSE "replay"
                 /\ last_run' = "none"
       ELSE pc' = "heartbeat" /\ rp' = NoCall /\ last_run' = "none"
    /\ UNCHANGED <<fm_built, force_ready, clients, last_drift,
                   max_replay_per_tick>>
    /\ UNCHANGED dvars
    /\ UNCHANGED <<log, cursor_file, up, outbox, keyspaces, wm, applied, acked,
                   failed_writes, appends, crashes>>

\* the heartbeat writing what is left to replay in place of the cursor
heartbeat_id_left == end_offset - load_cursor

\* the last_applied_log_id of the heartbeat: the cursor read after the replay
heartbeat_id == load_cursor

\* the rest of SyncWorker::run_once: the heartbeat watermark on Passive (c1,
\* c2 are the outcomes of the CREATE TABLE and of the upsert), then
\* drift_status, whose error ends run_once
run_once_end(c1, c2) ==
    /\ up /\ pc = "heartbeat"
    /\ UNCHANGED tvars
    /\ UNCHANGED evars
    /\ UNCHANGED svars
    /\ UNCHANGED pvars
    /\ UNCHANGED xvars
    /\ UNCHANGED cvars
    /\ UNCHANGED bvars
    /\ LET sent == outbox /\ load_cursor_ok /\ keyspaces /\ clients.passive /\ c2
       IN  /\ wm' = IF sent THEN [wm EXCEPT !["Passive"] = heartbeat_id] ELSE wm
           /\ rows' = IF sent
                      THEN [rows EXCEPT !["Passive"] = @ \cup {write_watermark_for_id}]
                      ELSE rows
    /\ LET d == drift_status(drift_rec_threshold, drift_bytes_threshold) IN
       /\ last_drift' = IF d.ok /\ d.val.some THEN d.val ELSE last_drift
       /\ last_run' = IF d.ok THEN "ok" ELSE "err_load_cursor"
    /\ pc' = "idle"
    /\ rp' = NoCall
    /\ UNCHANGED fvars
    /\ UNCHANGED <<log, cursor_file, up, outbox, keyspaces, applied,
                   acked, failed_writes, appends, crashes, max_replay_per_tick>>

\* the outcomes a session can give: none without the session
possible(a, b) ==
    rp.kind = "once" => (a => clients.active) /\ (b => clients.passive)

\* one worker from its construction on, connected to both clusters, which
\* answer the health probe of every tick; the statements may still fail
WorkerNext ==
    \/ \E ob, ks \in BOOLEAN, max \in ReplayCaps :
            (ks => ob) /\ worker_new(ob, ks, TRUE, TRUE, max)
    \/ \E rec \in Records \cup TargetedRecords, now \in NowMs : enqueue(rec, now)
    \/ run_once_begin(TRUE, TRUE, TRUE)
    \/ \E a \in BOOLEAN, b \in BOOLEAN, st \in {"ok", "err_open", "err_write"} :
            possible(a, b) /\ replay_step(a, b, st)
    \/ \E c1 \in BOOLEAN, c2 \in BOOLEAN :
            possible(c1 /\ c2, c1 /\ c2) /\ replay_mark(c1, c2)
    \/ replay_return
    \/ \E c1 \in BOOLEAN, c2 \in BOOLEAN : run_once_end(c1, c2)

WorkerSpec == Init /\ [][WorkerNext]_vars

(***************************************************************************)
(* The watermark upsert of DbClients.                                      *)
(***************************************************************************)
\* the id of the row that DbClients::upsert_watermark upserts
upsert_watermark_id == 1

\* DbClients::upsert_watermark_active (which_active) or _passive on the
\* worker's clients; ok is the outcome of the INSERT, false without session
upsert_watermark(which_active, ok) ==
    /\ up /\ fm_built /\ pc = "idle"
    /\ LET c == IF which_active THEN "Active" ELSE "Passive"
           sess == IF which_active THEN clients.active ELSE clients.passive
       IN  rows' = IF sess /\ ok
                  THEN [rows EXCEPT ![c] = @ \cup {upsert_watermark_id}]
                  ELSE rows
    /\ UNCHANGED tvars
    /\ UNCHANGED evars
    /\ UNCHANGED svars
    /\ UNCHANGED pvars
    /\ UNCHANGED xvars
    /\ UNCHANGED lvars
    /\ UNCHANGED cvars
    /\ UNCHANGED bvars
    /\ UNCHANGED ovars
    /\ UNCHANGED fvars
    /\ UNCHANGED wvars

\* a worker on an outbox nobody appends to, and the DbClients upserts
UpsertNext ==
    \/ \E ob, ks, sa, sp \in BOOLEAN :
            (ks => ob) /\ worker_new(ob, ks, sa, sp, max_replay_default)
    \/ \E a_ans, p_ans, ping \in BOOLEAN : run_once_begin(a_ans, p_ans, ping)
    \/ \E c1 \in BOOLEAN, c2 \in BOOLEAN : run_once_end(c1, c2)
    \/ \E which_active, ok \in BOOLEAN : upsert_watermark(which_active, ok)

UpsertSpec == Init /\ [][UpsertNext]_vars

(***************************************************************************)
(* The record codec on its own: encode, decode, and the first append.      *)
(***************************************************************************)
\* keys and statements: Strings, so well-formed UTF-8 of 0 to 4 bytes per
\* character
CodecKeys == {<<>>, <<107>>, <<195, 169, 226, 130, 172>>}
CodecStmts == {<<73, 78>>, <<240, 159, 152, 128>>}
\* parameter lists: none, one blob, an empty blob in front of a blob with the
\* bytes 0 and 255
CodecParams == {<<>>, << <<9>> >>, << <<>>, <<0, 255>> >>}
CodecMs == {0, 7, 65536}

CodecRecords ==
    {[idempotency_key |-> k, statement |-> st, params |-> ps,
      target |-> t, created_ms |-> ms] :
        k \in CodecKeys, st \in CodecStmts, ps \in CodecParams,
        t \in OutboxTarget, ms \in CodecMs}

\* one record of CodecRecords is about to go through the codec
CodecInit ==
    /\ Fresh
    /\ trip \in {[NoTrip EXCEPT !.stage = "input", !.rec = r] : r \in CodecRecords}

frame_vars == <<fm_built, state, force_ready, clients, fh, last_drift,
                max_replay_per_tick, last_run, calm, boot, conf, execs,
                prep, steps, rows>>

\* OutboxRecord::encode of the record
codec_encode ==
    /\ trip.stage = "input"
    /\ trip' = [trip EXCEPT !.stage = "encoded", !.bytes = encode(trip.rec)]
    /\ UNCHANGED ovars
    /\ UNCHANGED frame_vars

\* OutboxRecord::decode of the bytes encode gave
codec_decode ==
    /\ trip.stage = "encoded"
    /\ trip' = [trip EXCEPT !.stage = "decoded", !.back = decode(trip.bytes)]
    /\ UNCHANGED ovars
    /\ UNCHANGED frame_vars

\* Outbox::read_from(0, 1) once the record has been appended
codec_read ==
    /\ up /\ outbox /\ pc = "idle" /\ ~trip.did_read
    /\ appends >= 1
    /\ trip' = [trip EXCEPT !.did_read = TRUE, !.read = read_from(log, 0, 1)]
    /\ UNCHANGED ovars
    /\ UNCHANGED frame_vars

CodecNext ==
    \/ codec_encode
    \/ codec_decode
    \/ \E ks \in BOOLEAN : open(TRUE, ks)
    \/ \E now \in NowMs : trip.stage # "none" /\ enqueue(trip.rec, now)
    \/ codec_read

CodecSpec == CodecInit /\ [][CodecNext]_vars

(***************************************************************************)
(* read_from on its own, over log files of any content.                    *)
(***************************************************************************)
\* a whole frame, the same frame with another magic, with another version,
\* and cut after the magic, after the header, one byte before its end
ScanPieces ==
    LET good == frame(CHOOSE r \in Records : TRUE) IN
    {good,
     frame(CHOOSE r \in TargetedRecords : TRUE),
     [good EXCEPT ![1] = 69],
     [good EXCEPT ![5] = 2],
     Take(good, 4), Take(good, HEADER_LEN), Take(good, Len(good) - 1)}

RECURSIVE ScanLogsOf(_)
ScanLogsOf(n) ==
    IF n = 0 THEN {<<>>}
    ELSE LET shorter == ScanLogsOf(n - 1) IN
         shorter \cup {f \o p : f \in shorter, p \in ScanPieces}

\* the log files of at most MaxPieces pieces
ScanLogs == ScanLogsOf(MaxPieces)

\* offsets handed to read_from: the start of the file, inside a frame, the
\* end of the first frame (or behind the end of a shorter file)
ScanOffsets == {0, 4, HEADER_LEN, Len(frame(CHOOSE r \in Records : TRUE))}

\* an outbox.log of ScanLogs is about to be read
ScanInit ==
    /\ log \in ScanLogs
    /\ Unbuilt
    /\ trip = [NoTrip EXCEPT !.stage = "scan"]

\* Outbox::read_from(offset, max): Ok(out), kept in trip.read
scan(offset, max) ==
    /\ trip.stage = "scan" /\ ~trip.did_read
    /\ trip' = [trip EXCEPT !.did_read = TRUE, !.at = offset, !.max = max,
                            !.read = read_from(log, offset, max)]
    /\ UNCHANGED ovars
    /\ UNCHANGED frame_vars

ScanNext ==
    \E offset \in ScanOffsets, max \in {1, 2, Unbounded(log)} : scan(offset, max)

ScanSpec == ScanInit /\ [][ScanNext]_vars

(***************************************************************************)
(* AppConfig::from_env.                                                    *)
(***************************************************************************)
\* str::parse::<u16>: an optional '+', then one decimal digit at least and
\* nothing else, the value at most 65535; acc is the value of the digits
\* read so far
RECURSIVE parse_digits(_, _)
parse_digits(bs, acc) ==
    IF bs = <<>> THEN Some(acc)
    ELSE IF bs[1] < 48 \/ bs[1] > 57 THEN None
    ELSE LET v == acc * 10 + (bs[1] - 48) IN
         IF v > 65535 THEN None ELSE parse_digits(Tail(bs), v)

parse_u16(bs) ==
    IF bs = <<>> THEN None
    ELSE IF bs[1] = 43
    THEN IF Len(bs) = 1 THEN None ELSE parse_digits(Tail(bs), 0)
    ELSE parse_digits(bs, 0)

\* format!("{}_{}", prefix, name)
scoped(prefix, name) ==
    IF prefix = "ACTIVE_DB" THEN
        (IF name = "HOST" THEN "ACTIVE_DB_HOST"
         ELSE IF name = "PORT" THEN "ACTIVE_DB_PORT" ELSE "ACTIVE_DB_USERNAME")
    ELSE IF prefix = "PASSIVE_DB" THEN
        (IF name = "HOST" THEN "PASSIVE_DB_HOST"
         ELSE IF name = "PORT" THEN "PASSIVE_DB_PORT" ELSE "PASSIVE_DB_USERNAME")
    ELSE
        (IF name = "HOST" THEN "DB_HOST"
         ELSE IF name = "PORT" THEN "DB_PORT" ELSE "DB_USERNAME")

\* read_env_string treating an empty value as unset
read_env_string_nonempty(e, prefix, global_prefix, name, default) ==
    IF e[scoped(prefix, name)].some /\ e[scoped(prefix, name)].val # <<>>
    THEN e[scoped(prefix, name)].val
    ELSE IF e[scoped(global_prefix, name)].some
    THEN e[scoped(global_prefix, name)].val
    ELSE default

\* read_env_string(prefix, Some(global_prefix), name, default) in the
\* environment e
read_env_string(e, prefix, global_prefix, name, default) ==
    IF e[scoped(prefix, name)].some THEN e[scoped(prefix, name)].val
    ELSE IF e[scoped(global_prefix, name)].some
    THEN e[scoped(global_prefix, name)].val
    ELSE default

\* read_env_u16(prefix, Some(global_prefix), name, default)
read_env_u16(e, prefix, global_prefix, name, default) ==
    LET specific == e[scoped(prefix, name)]
        global   == e[scoped(global_prefix, name)]
    IN  IF specific.some /\ parse_u16(specific.val).some
        THEN parse_u16(specific.val).val
        ELSE IF global.some /\ parse_u16(global.val).some
        THEN parse_u16(global.val).val
        ELSE default

\* DbEndpoint::from_env_with_defaults, the fields of the model
from_env_with_defaults(e, prefix, global_prefix, defaults) ==
    [host |-> read_env_string(e, prefix, global_prefix, "HOST", defaults.host),
     port |-> read_env_u16(e, prefix, global_prefix, "PORT", defaults.port),
     username |-> read_env_string(e, prefix, global_prefix, "USERNAME",
                                  defaults.username)]

\* the values the variables of the environment take in the model
activehost == <<97, 99, 116, 105, 118, 101, 104, 111, 115, 116>>
globalhost == <<103, 108, 111, 98, 97, 108, 104, 111, 115, 116>>
not_a_number == <<110, 111, 116, 45, 97, 45, 110, 117, 109, 98, 101, 114>>
EnvHosts ==
    [ACTIVE_DB_HOST : {None, Some(<<>>), Some(activehost)},
     PASSIVE_DB_HOST : {None, Some(<<112>>)},
     DB_HOST : {None, Some(globalhost)}]
EnvPorts ==
    [ACTIVE_DB_PORT : {None, Some(<<57, 57, 57, 57>>), Some(not_a_number), Some(<<>>),
                       Some(<<54, 53, 53, 51, 54>>), Some(<<43, 56, 48>>)},
     PASSIVE_DB_PORT : {None, Some(<<55, 48, 48, 48, 48>>), Some(<<49>>)},
     DB_PORT : {None, Some(<<57, 57, 57, 56>>), Some(<<45, 49>>)}]
EnvUsers ==
    [ACTIVE_DB_USERNAME : {None, Some(<<>>)},
     PASSIVE_DB_USERNAME : {None},
     DB_USERNAME : {None, Some(<<117>>)}]

Environments ==
    {[n \in DOMAIN NoEnv |->
        IF n \in DOMAIN h THEN h[n] ELSE IF n \in DOMAIN p THEN p[n] ELSE u[n]] :
        h \in EnvHosts, p \in EnvPorts, u \in EnvUsers}

\* the process starts in one of the Environments
ConfigInit ==
    /\ log = <<>>
    /\ trip = NoTrip
    /\ cursor_file = NoFile
    /\ execs = NoExecs
    /\ \E e \in Environments : conf = [NoConf EXCEPT !.env = e]
    /\ ConfigRest

\* AppConfig::from_env()
from_env ==
    /\ ~conf.loaded
    /\ conf' = [conf EXCEPT
                  !.loaded = TRUE,
                  !.cfg = [active |-> from_env_with_defaults(
                                          conf.env, "ACTIVE_DB", "DB",
                                          AppConfig_default.active),
                           passive |-> from_env_with_defaults(
                                          conf.env, "PASSIVE_DB", "DB",
                                          AppConfig_default.passive)]]
    /\ UNCHANGED ovars
    /\ UNCHANGED <<fm_built, state, force_ready, clients, fh, last_drift,
                   max_replay_per_tick, last_run, calm, boot, trip, execs,
                   prep, steps, rows>>

ConfigNext == from_env

ConfigSpec == ConfigInit /\ [][ConfigNext]_vars

(***************************************************************************)
(* DbClients::get_or_prepare, one step per suspension point.               *)
(***************************************************************************)
\* the variables get_or_prepare leaves alone
beside_prep == <<ovars, fvars, wvars, dvars, lvars, cvars, bvars, tvars, evars,
                 xvars, svars>>

\* the DbClients of the callers holds any sessions
PrepareInit ==
    /\ log = <<>>
    /\ trip = NoTrip
    /\ conf = NoConf
    /\ cursor_file = NoFile
    /\ execs = NoExecs
    /\ up = FALSE /\ outbox = FALSE /\ keyspaces = FALSE
    /\ pc = "idle" /\ rp = NoCall
    /\ wm = [c \in Cluster |-> -1]
    /\ applied = {} /\ acked = {} /\ failed_writes = {}
    /\ appends = 0 /\ crashes = 0
    /\ fm_built = FALSE /\ state = FailoverState_default
    /\ force_ready = FALSE
    /\ clients \in [active : BOOLEAN, passive : BOOLEAN]
    /\ fh = NoTicks
    /\ last_drift = None
    /\ max_replay_per_tick = max_replay_default
    /\ last_run = "none"
    /\ calm = FALSE
    /\ boot = NotStarted
    /\ prep = NoPrep
    /\ steps = <<>>
    /\ rows = [c \in Cluster |-> {}]

\* the guard of the lookup kept until get_or_prepare returns
guard_after_lookup_held(t, hit) == IF hit THEN 0 ELSE t

\* the holder of the Mutex after `if let Some(ps) = cache.lock().await
\* .get(cql).cloned() { return Some(ps); }`: the guard is a temporary of the
\* `if let`, dropped with the return and at the end of the statement
guard_after_lookup(t, hit) == 0

\* the cache replaced by the statement just prepared
cache_insert_alone(keys, cql) == {cql}

\* cache.insert(cql.to_string(), arc_ps.clone()), the keys
cache_insert(keys, cql) == keys \cup {cql}

\* task t calls get_or_prepare(which_active, cql); without session the call
\* returns None at once
get_or_prepare(t, c, cql) ==
    /\ prep.task[t].pc = "idle"
    /\ prep.calls < MaxCalls
    /\ prep' = [prep EXCEPT
                  !.calls = @ + 1,
                  !.task[t] = IF session(clients, c)
                              THEN [pc |-> "lock_lookup", cl |-> c, cql |-> cql,
                                    ret |-> "none"]
                              ELSE [pc |-> "idle", cl |-> c, cql |-> cql,
                                    ret |-> "None"]]
    /\ UNCHANGED beside_prep

\* cache.lock().await of the lookup completes
lock_lookup(t) ==
    /\ prep.task[t].pc = "lock_lookup"
    /\ prep.holder[prep.task[t].cl] = 0
    /\ prep' = [prep EXCEPT
                  !.holder[prep.task[t].cl] = t,
                  !.task[t].pc = "lookup"]
    /\ UNCHANGED beside_prep

\* .get(cql).cloned(): a hit returns Some(ps), a miss goes on to prepare
lookup(t) ==
    /\ prep.task[t].pc = "lookup"
    /\ LET me  == prep.task[t]
           hit == me.cql \in prep.cache[me.cl]
       IN  prep' = [prep EXCEPT
                      !.holder[me.cl] = guard_after_lookup(t, hit),
                      !.task[t].pc = IF hit THEN "idle" ELSE "prepare",
                      !.task[t].ret = IF hit THEN "Some" ELSE "none"]
    /\ UNCHANGED beside_prep

\* sess.prepare(cql).await returns Ok (ok) or Err, which returns None
prepare(t, ok) ==
    /\ prep.task[t].pc = "prepare"
    /\ LET me == prep.task[t] IN
       prep' = [prep EXCEPT
                  !.failed = IF ok THEN @ ELSE @ \cup {<<me.cl, me.cql>>},
                  !.task[t].pc = IF ok THEN "lock_insert" ELSE "idle",
                  !.task[t].ret = IF ok THEN "none" ELSE "None"]
    /\ UNCHANGED beside_prep

\* cache.lock().await of the insert completes
lock_insert(t) ==
    /\ prep.task[t].pc = "lock_insert"
    /\ prep.holder[prep.task[t].cl] = 0
    /\ prep' = [prep EXCEPT
                  !.holder[prep.task[t].cl] = t,
                  !.task[t].pc = "insert"]
    /\ UNCHANGED beside_prep

\* .insert(..); the guard is dropped at the end of the statement and the call
\* returns Some(arc_ps)
insert(t) ==
    /\ prep.task[t].pc = "insert"
    /\ LET me == prep.task[t] IN
       prep' = [prep EXCEPT
                  !.cache[me.cl] = cache_insert(@, me.cql),
                  !.holder[me.cl] = 0,
                  !.task[t].pc = "idle",
                  !.task[t].ret = "Some"]
    /\ UNCHANGED beside_prep

PrepareNext ==
    \/ \E t \in Callers, c \in Cluster, cql \in Texts : get_or_prepare(t, c, cql)
    \/ \E t \in Callers : lock_lookup(t)
    \/ \E t \in Callers : lookup(t)
    \/ \E t \in Callers, ok \in BOOLEAN : prepare(t, ok)
    \/ \E t \in Callers : lock_insert(t)
    \/ \E t \in Callers : insert(t)

PrepareSpec == PrepareInit /\ [][PrepareNext]_vars

(***************************************************************************)
(* main: init_clients, ensure_keyspaces, then the HTTP server.             *)
(***************************************************************************)
DEFAULT_RETRIES == 3

\* a loop that makes one attempt more than `retries`
attempts_left_one_more(tries, retries) == tries <= retries

\* connect_with_retries: `for _ in 0..retries`
attempts_left(tries, retries) == tries < retries

\* the cluster init_clients is connecting: Active first, then Passive; an
\* endpoint is finished by a session or by the end of its attempts
connecting(b, cl) ==
    IF ~cl.active /\ attempts_left(b.tries["Active"], DEFAULT_RETRIES)
       /\ b.tries["Passive"] = 0
    THEN "Active" ELSE "Passive"

\* one connect_once of connect_with_retries (ok: the session was built);
\* with the last one of the Passive endpoint init_clients returns, Err(Db)
\* when no session was built, and main ends on that error or goes on to
\* ensure_keyspaces, whose two futures start: the one of a cluster without
\* session fails at once, the other one awaits its prepared statement
connect_once(ok) ==
    /\ boot.pc = "init_clients"
    /\ LET c     == connecting(boot, clients)
           tries == [boot.tries EXCEPT ![c] = @ + 1]
           cl    == IF ~ok THEN clients
                    ELSE IF c = "Active" THEN [clients EXCEPT !.active = TRUE]
                    ELSE [clients EXCEPT !.passive = TRUE]
           last  == c = "Passive"
                    /\ (ok \/ ~attempts_left(tries["Passive"], DEFAULT_RETRIES))
       IN  /\ clients' = cl
           /\ boot' = IF ~last THEN [boot EXCEPT !.tries = tries]
                      ELSE IF ~cl.active /\ ~cl.passive
                      THEN [boot EXCEPT !.tries = tries, !.pc = "exit",
                                        !.error = "init_clients"]
                      ELSE [boot EXCEPT
                              !.tries = tries, !.pc = "ensure_keyspaces",
                              !.ens = [k \in Cluster |->
                                         IF session(cl, k) THEN "prepare"
                                         ELSE "err"]]
    /\ UNCHANGED tvars
    /\ UNCHANGED evars
    /\ UNCHANGED svars
    /\ UNCHANGED pvars
    /\ UNCHANGED xvars
    /\ UNCHANGED <<fm_built, state, force_ready, fh>>
    /\ UNCHANGED ovars
    /\ UNCHANGED wvars
    /\ UNCHANGED lvars
    /\ UNCHANGED cvars
    /\ UNCHANGED dvars

\* Ok(()) of ensure_keyspace_for_cluster: the keyspace was found ("ok") or
\* has just been created
ensured == {"ok", "created"}

\* main after a step of ensure_keyspaces: when both futures of the join are
\* finished, any error ends main, otherwise the server is started
after_ensure(b) ==
    IF \E k \in Cluster : b.ens[k] \notin ensured \cup {"err"} THEN b
    ELSE IF \E k \in Cluster : b.ens[k] = "err"
    THEN [b EXCEPT !.pc = "exit", !.error = "ensure_keyspaces"]
    ELSE [b EXCEPT !.pc = "start_server"]

\* ensure_keyspace_for_cluster for cluster c, its first await: get_or_prepare
\* of the existence check, None is an error
ensure_prepare(c, ok) ==
    /\ boot.pc = "ensure_keyspaces" /\ boot.ens[c] = "prepare"
    /\ boot' = after_ensure([boot EXCEPT !.ens[c] = IF ok THEN "check" ELSE "err"])
    /\ UNCHANGED tvars
    /\ UNCHANGED evars
    /\ UNCHANGED svars
    /\ UNCHANGED pvars
    /\ UNCHANGED xvars
    /\ UNCHANGED fvars
    /\ UNCHANGED ovars
    /\ UNCHANGED wvars
    /\ UNCHANGED lvars
    /\ UNCHANGED cvars
    /\ UNCHANGED dvars

\* the existence check: a row ends the future with Ok, an error with Err,
\* anything else goes on to CREATE KEYSPACE
ensure_check(c, res) ==
    /\ boot.pc = "ensure_keyspaces" /\ boot.ens[c] = "check"
    /\ boot' = after_ensure([boot EXCEPT !.ens[c] = CASE res = "row" -> "ok"
                                                     [] res = "err" -> "err"
                                                     [] OTHER -> "create"])
    /\ UNCHANGED tvars
    /\ UNCHANGED evars
    /\ UNCHANGED svars
    /\ UNCHANGED pvars
    /\ UNCHANGED xvars
    /\ UNCHANGED fvars
    /\ UNCHANGED ovars
    /\ UNCHANGED wvars
    /\ UNCHANGED lvars
    /\ UNCHANGED cvars
    /\ UNCHANGED dvars

\* CREATE KEYSPACE IF NOT EXISTS
ensure_create(c, ok) ==
    /\ boot.pc = "ensure_keyspaces" /\ boot.ens[c] = "create"
    /\ boot' = after_ensure([boot EXCEPT !.ens[c] = IF ok THEN "created" ELSE "err"])
    /\ UNCHANGED tvars
    /\ UNCHANGED evars
    /\ UNCHANGED svars
    /\ UNCHANGED pvars
    /\ UNCHANGED xvars
    /\ UNCHANGED fvars
    /\ UNCHANGED ovars
    /\ UNCHANGED wvars
    /\ UNCHANGED lvars
    /\ UNCHANGED cvars
    /\ UNCHANGED dvars

StartupNext ==
    \/ \E ok \in BOOLEAN : connect_once(ok)
    \/ \E c \in Cluster, ok \in BOOLEAN : ensure_prepare(c, ok)
    \/ \E c \in Cluster, res \in {"row", "no_row", "err"} : ensure_check(c, res)
    \/ \E c \in Cluster, ok \in BOOLEAN : ensure_create(c, ok)

StartupSpec == Init /\ [][StartupNext]_vars

(***************************************************************************)
(* The worker's loop until the outbox is drained.                          *)
(***************************************************************************)
\* ReplicationManager::enqueue whose Outbox::append fails: one write_all of
\* the chain returns an error after k bytes of the frame have reached the
\* file, append returns Err and the bytes stay in outbox.log
enqueue_err(rec, now, k) ==
    /\ up /\ outbox /\ pc = "idle"
    /\ appends < MaxAppends
    /\ k \in torn_cuts(Len(frame(stamped(rec, now))))
    /\ log' = log \o Take(frame(stamped(rec, now)), k)
    /\ appends' = appends + 1
    /\ UNCHANGED tvars
    /\ UNCHANGED evars
    /\ UNCHANGED svars
    /\ UNCHANGED pvars
    /\ UNCHANGED xvars
    /\ UNCHANGED lvars
    /\ UNCHANGED cvars
    /\ UNCHANGED bvars
    /\ UNCHANGED fvars
    /\ UNCHANGED wvars
    /\ UNCHANGED dvars
    /\ UNCHANGED <<cursor_file, up, outbox, keyspaces, pc, rp, wm, applied,
                   acked, failed_writes, crashes>>

\* the point from which on nothing is enqueued and the writes of the outbox
\* and the applies succeed, between two run_once calls of run_loop
calm_down ==
    /\ up /\ fm_built /\ pc = "idle" /\ ~calm
    /\ calm' = TRUE
    /\ UNCHANGED tvars
    /\ UNCHANGED evars
    /\ UNCHANGED svars
    /\ UNCHANGED pvars
    /\ UNCHANGED xvars
    /\ UNCHANGED lvars
    /\ UNCHANGED bvars
    /\ UNCHANGED ovars
    /\ UNCHANGED fvars
    /\ UNCHANGED wvars
    /\ UNCHANGED dvars

\* one step of run_loop: the next run_once, or the next step of the run_once
\* in progress; both sessions answer, and once calm every apply and every
\* store_cursor succeeds
run_loop_step ==
    \/ run_once_begin(TRUE, TRUE, TRUE)
    \/ \E a \in BOOLEAN, b \in BOOLEAN, st \in {"ok", "err_open", "err_write"} :
            /\ calm => (a /\ b /\ st = "ok")
            /\ possible(a, b) /\ replay_step(a, b, st)
    \/ \E c1 \in BOOLEAN, c2 \in BOOLEAN :
            possible(c1 /\ c2, c1 /\ c2) /\ replay_mark(c1, c2)
    \/ replay_return
    \/ \E c1 \in BOOLEAN, c2 \in BOOLEAN : run_once_end(c1, c2)

DrainNext ==
    \/ \E ks \in BOOLEAN, max \in ReplayCaps \ {0} :
            worker_new(TRUE, ks, TRUE, TRUE, max)
    \/ \E rec \in Records \cup TargetedRecords, now \in NowMs :
            ~calm /\ enqueue(rec, now)
    \/ \E rec \in Records, now \in NowMs, k \in 1..40 :
            ~calm /\ enqueue_err(rec, now, k)
    \/ calm_down
    \/ run_loop_step

\* run_loop never stops making steps: every await of run_once completes and
\* the sleep between two ticks ends
DrainSpec == Init /\ [][DrainNext]_vars /\ WF_vars(run_loop_step)


(***************************************************************************)
(* Properties.                                                             *)
(***************************************************************************)
\* the records not yet replayed: read_from(cursor, unbounded)
pending_of(f, cf) == read_from(f, cursor_of(cf), Unbounded(f))
pending == pending_of(log, cursor_file)

\* the frames of the log: read_from(0, unbounded)
frames == read_from(log, 0, Unbounded(log))

IsPrefix(s, t) == Len(s) <= Len(t) /\ s = SubSeq(t, 1, Len(s))

\* C1: whatever enqueues, replays, crashes and reopens have happened, every
\* frame that lies wholly inside [0, cursor) has had an apply that succeeded
\* on every cluster of its target within one attempt.
C1_CursorOnlyPastApplied ==
    load_cursor_ok =>
        LET fs == frames
            cursor == load_cursor
        IN  \A i \in DOMAIN fs :
                fs[i].end <= cursor => fs[i].start \in applied

\* C1 witness: after a restart the cursor lies behind a frame for both
\* clusters and in front of a frame not yet replayed.
C1_Witness ==
    /\ up /\ outbox /\ crashes > 0 /\ load_cursor_ok
    /\ \E i \in DOMAIN frames :
          frames[i].end = load_cursor /\ frames[i].rec.target = "Both"
    /\ pending # <<>>

\* C2: no step makes the readable cursor smaller, and the cursor never
\* exceeds end_offset: before <= after <= end_offset around every replay call.
C2_CursorMonotone ==
    [][(cursor_ok(cursor_file) /\ cursor_ok(cursor_file'))
          => /\ cursor_of(cursor_file) <= cursor_of(cursor_file')
             /\ cursor_of(cursor_file') <= Len(log')]_vars

\* C2 witness: a replay_and_mark call is about to return having advanced the
\* cursor over one record, another record is still in front of it.
C2_Witness ==
    /\ pc = "marks" /\ rp.kind = "mark" /\ rp.marks = <<>> /\ rp.processed = 1
    /\ load_cursor_ok /\ load_cursor > rp.cursor0 /\ load_cursor < end_offset

\* C3: the cursor is between 0 and the length of the log, and it is 0 or the
\* end of a well-formed frame: the bytes in [0, cursor) parse as a sequence of
\* complete frames that ends exactly at the cursor.
C3_CursorOnFrameBoundary ==
    load_cursor_ok =>
        /\ 0 <= load_cursor /\ load_cursor <= Len(log)
        /\ LET fs == read_from(Take(log, load_cursor), 0, Unbounded(log)) IN
           load_cursor = 0 \/ (fs # <<>> /\ fs[Len(fs)].end = load_cursor)

\* C3 witness: replay has moved the cursor to the end of the second frame
\* of the log.
C3_Witness ==
    /\ pc = "idle" /\ up
    /\ load_cursor_ok /\ Len(frames) >= 2
    /\ load_cursor = frames[2].end

\* C4: when the apply of the first record of a batch fails, the call returns
\* 0 having tried that record only, and the cursor and queue_len are what
\* they were when the call began.
C4_NoSkipOnFailure ==
    [][(replay_return /\ rp.first_failed)
          => /\ rp.processed = 0
             /\ rp.tried = 1
             /\ cursor_ok(cursor_file')
             /\ cursor_of(cursor_file') = rp.cursor0
             /\ queue_len_of(outbox', log', cursor_file') = rp.qlen0]_vars

\* C4 witness: the first apply of a batch of two records has failed.
C4_Witness ==
    /\ pc = "marks" /\ rp.first_failed
    /\ load_cursor_ok /\ Len(pending) >= 2 /\ rp.qlen0 >= 2

\* C5: the record a replay tries next starts at the persisted cursor, no
\* record that starts behind the cursor has ever been applied, every frame
\* in front of a tried record has been applied, and after a failed apply the
\* cursor stays at the start of the failed record.
C5_AppendOrder ==
    load_cursor_ok =>
        /\ \A s \in applied : s <= load_cursor
        /\ pc = "replay" =>
              /\ Head(rp.batch).start = load_cursor
              /\ \A i \in DOMAIN frames :
                    frames[i].end <= Head(rp.batch).start
                        => frames[i].start \in applied
        /\ (pc # "idle" /\ rp.failed) => load_cursor = rp.failed_start

\* C5 witness: the apply of a head record for Active has failed while the
\* record behind it in the log is for Passive.
C5_Witness ==
    /\ pc = "marks" /\ rp.failed /\ load_cursor_ok
    /\ rp.failed_start = load_cursor
    /\ Len(pending) >= 2
    /\ pending[1].rec.target = "Active"
    /\ pending[2].rec.target = "Passive"

\* C6: dropping the manager and opening the same directory again changes
\* neither the log nor an existing cursor file, so the records returned by
\* read_from(cursor, unbounded) and the value of pending_count are the same
\* after the restart as before.
C6_RestartKeepsPending ==
    [][(crash \/ \E ob \in BOOLEAN, ks \in BOOLEAN : open(ob, ks))
          => /\ log' = log
             /\ cursor_file # NoFile => cursor_file' = cursor_file
             /\ cursor_ok(cursor_file) =>
                   /\ cursor_ok(cursor_file')
                   /\ pending_of(log', cursor_file') = pending_of(log, cursor_file)
                   /\ pending_count_of(log', cursor_file')
                        = pending_count_of(log, cursor_file)]_vars

\* C6 witness: after a restart a record that was enqueued and never applied
\* is returned by read_from(cursor, unbounded).
C6_Witness ==
    /\ up /\ outbox /\ crashes > 0 /\ load_cursor_ok
    /\ queue_len > 0
    /\ \E a \in acked :
          /\ a.start \notin applied
          /\ \E i \in DOMAIN pending : pending[i] = a


\* the clusters of a write_simple target whose execute failed, in the order
\* in which write_simple executes them
failed_targets(target, ok_a, ok_p) ==
    (IF target \in {"Active", "Both"} /\ ~ok_a THEN <<"Active">> ELSE <<>>)
      \o (IF target \in {"Passive", "Both"} /\ ~ok_p THEN <<"Passive">> ELSE <<>>)

\* the frames found in log content g behind the content f it extends
appended(f, g) == read_from(g, Len(f), Unbounded(g))

\* C7: every (key, cql, cluster) whose execute failed inside a write_simple
\* call that has returned to the running process is a record of the outbox:
\* append has returned for a frame that holds it.
C7_FailedWritesAbsorbed ==
    \A w \in failed_writes :
        \E a \in acked :
            /\ a.rec.idempotency_key = w.key
            /\ a.rec.statement = w.cql
            /\ a.rec.target = w.cl

\* C8: write_simple returns true iff the execute of at least one resolved
\* target succeeded, and the records it appends are exactly one (key, cql,
\* cluster) per failed target, Active before Passive.
C8_WriteSimpleResult ==
    [][\A key \in Keys, cql \in Stmts, target \in OutboxTarget,
          ok_a \in BOOLEAN, ok_p \in BOOLEAN, now \in NowMs :
          write_simple(key, cql, target, ok_a, ok_p, now)
            => /\ any_ok(target, ok_a, ok_p)
                    = (\E c \in clusters_of(target) :
                          IF c = "Active" THEN ok_a ELSE ok_p)
               /\ LET new == appended(log, log')
                      ft  == failed_targets(target, ok_a, ok_p)
                  IN  /\ Len(new) = Len(ft)
                      /\ \A i \in DOMAIN new :
                           /\ new[i].rec.idempotency_key = key
                           /\ new[i].rec.statement = cql
                           /\ new[i].rec.target = ft[i]
                      /\ (new = <<>> /\ log' = log)
                           \/ (new # <<>> /\ new[Len(new)].end = Len(log'))]_vars

C10_AckedFrameParsed ==
    \A a \in acked :
        \A k \in a.end..Len(log) :
            LET fs == read_from(Take(log, k), 0, Unbounded(log)) IN
            \E i \in DOMAIN fs : fs[i] = a

(***************************************************************************)
(* Failover.                                                               *)
(***************************************************************************)
\* a step is a tick whose observation is (a, p), made by tick_with_status
\* or by tick
ticked(a, p) ==
    \E ping \in BOOLEAN :
       \/ tick_with_status(a, p, ping)
       \/ \E x, y \in BOOLEAN :
             /\ a = (clients.active /\ x)
             /\ p = (clients.passive /\ y)
             /\ tick(x, y, ping)

\* C11: with forced readiness and primary Active, a tick moves the primary to
\* Passive if and only if its Active observation fails, it is at least the
\* 3rd failing Active observation in a row and its Passive observation is
\* ok; the switch sets last_switch.  From the fresh state that is the 3rd
\* tick of (false, true) and not the 2nd.
C11_ForcedFailover ==
    [][\A a, p \in BOOLEAN :
          (force_ready /\ state.primary = "Active" /\ ticked(a, p))
            => /\ (state'.primary = "Passive")
                    <=> (~a /\ fh.fail_streak + 1 >= 3 /\ p)
               /\ state'.primary = "Passive" => state'.last_switch
               /\ (fh.ticks = 2 /\ fh.fail_streak = 2 /\ ~a /\ p)
                    => state'.primary = "Passive"
               /\ fh.ticks < 2 => state'.primary = "Active"]_vars

\* three ticks of (false, true) from the fresh state have failed over
C11_Witness ==
    /\ force_ready
    /\ fh.ticks = 3
    /\ fh.switches = 1
    /\ state.primary = "Passive"
    /\ state.last_switch
    /\ state.last_passive_ok
    /\ ~state.last_active_ok

\* C12: with forced readiness and primary Passive, a tick moves the primary
\* back to Active if and only if its Active observation is ok and it is at
\* least the 5th ok Active observation in a row counted from the switch; a
\* failing Active observation restarts the count, and up to the 4th tick
\* after the switch the primary is Passive.
C12_ForcedRecovery ==
    [][\A a, p \in BOOLEAN :
          (force_ready /\ state.primary = "Passive" /\ ticked(a, p))
            => /\ (state'.primary = "Active") <=> (a /\ fh.ok_run + 1 >= 5)
               /\ ~a => (fh'.ok_run = 0 /\ state'.primary = "Passive")
               /\ state.consecutive_active_success = fh.ok_run]_vars

\* failover on the 3rd tick, then five ticks of an ok Active: recovered
C12_Witness ==
    /\ force_ready
    /\ fh.switches = 2
    /\ fh.ticks = 8
    /\ state.primary = "Active"
    /\ state.last_switch

\* C13: a manager without forced readiness whose clients have no session on
\* either cluster never leaves primary = Active, whatever it observes
C13_NoFailoverWithoutReadiness ==
    (fm_built /\ ~force_ready /\ ~clients.active /\ ~clients.passive)
      => /\ state.primary = "Active"
         /\ ~state.last_switch
         /\ fh.switches = 0

\* three ticks of (false, true) left the switch pending: the probe was asked
\* and refused
C13_Witness ==
    /\ fm_built /\ ~force_ready /\ ~clients.active /\ ~clients.passive
    /\ fh.ticks = 3
    /\ fh.fail_streak = 3
    /\ state.last_passive_ok
    /\ state.pending = Some("Passive")
    /\ fh.probed
    /\ state.primary = "Active"

\* C14: after a tick that observed (a, p), last_status() is (a, p); and a
\* tick whose Passive observation fails leaves an Active primary Active,
\* however long Active has been failing and with or without forced readiness
C14_LastStatusAndPassiveDown ==
    [][\A a, p \in BOOLEAN :
          ticked(a, p)
            => /\ last_status(state') = <<a, p>>
               /\ (~p /\ state.primary = "Active")
                    => (state'.primary = "Active" /\ state'.pending = None)]_vars

\* forced readiness, Active failing for the 4th tick in a row, Passive down
\* on each of them: still Active
C14_Witness ==
    /\ force_ready
    /\ fh.ticks = 4
    /\ fh.fail_streak = 4
    /\ last_status(state) = <<FALSE, FALSE>>
    /\ state.consecutive_passive_success = 0
    /\ state.primary = "Active"
    /\ fh.switches = 0

\* C15: while primary = Active, a tick whose Active observation is ok ends
\* with pending = None and primary = Active, commits no switch and does not
\* call ready_to_switch, whatever was pending before, whatever the sessions
\* and force_ready are
C15_PendingRecomputed ==
    [][\A p \in BOOLEAN :
          (state.primary = "Active" /\ ticked(TRUE, p))
            => /\ state'.pending = None
               /\ state'.primary = "Active"
               /\ state'.last_switch = state.last_switch
               /\ fh'.switches = fh.switches
               /\ ~fh'.probed]_vars

\* a switch to Passive was pending and not ready; one ok Active observation
\* cleared it
C15_Witness ==
    /\ fh.cleared
    /\ state.primary = "Active"
    /\ state.last_active_ok
    /\ state.pending = None
    /\ state.consecutive_active_fail = 0
    /\ ~fh.probed
    /\ fh.ticks >= 4

(***************************************************************************)
(* Watermarks.                                                             *)
(***************************************************************************)
\* C16: the last_applied_log_id written to a cluster's watermark row, by the
\* marks of replay_and_mark or by the heartbeat of run_once, is never below
\* the value written to that cluster before
C16_WatermarkMonotone ==
    [][\A c \in Cluster : wm'[c] >= wm[c]]_vars

\* a second run_once has written, after the mark of a record on Passive and
\* the first heartbeat, a higher heartbeat on Passive
C16_Witness ==
    /\ pc = "idle"
    /\ fh.ticks = 2
    /\ wm["Passive"] = Len(log)
    /\ wm["Passive"] > wm["Active"]
    /\ wm["Active"] > 0
    /\ last_drift.some /\ last_drift.val.cursor = wm["Passive"]

\* C17: a last_applied_log_id written to a cluster's watermark row, other
\* than the 0 of an outbox of which nothing has been replayed, is the end
\* offset of a record of the log that is routed to that cluster and has been
\* applied
C17_WatermarkNamesApplied ==
    LET fs == frames IN
    \A c \in Cluster :
       wm[c] > 0
         => \E i \in DOMAIN fs :
               /\ fs[i].end = wm[c]
               /\ c \in clusters_of(fs[i].rec.target)
               /\ fs[i].start \in applied

\* C18: every row upserted into a cluster's repl_watermark table, by
\* write_watermark_cluster (the marks of a replay, the heartbeat of run_once)
\* or by DbClients::upsert_watermark, is the row whose id is 1
C18_OnlyRowOne ==
    \A c \in Cluster : rows[c] \subseteq {1}

(***************************************************************************)
(* Counting and draining the queue.                                        *)
(***************************************************************************)
\* C19: whatever the log and the cursor hold, pending_count() is the number
\* of records that read_from(cursor, unbounded) returns
C19_PendingCountIsReadFrom ==
    load_cursor_ok => pending_count = Len(pending)

\* C20: when a replay_with or replay_and_mark call returns Ok(n), the cursor
\* stands behind the n-th record that read_from yields from the cursor the
\* call started at; and if no apply of a replay_with(max) call failed, n is
\* min(max, queue_len at the start) and queue_len has gone down by n
C20_ReplayCount ==
    [][replay_return
         => /\ LET fs == read_from(log, rp.cursor0, rp.processed) IN
               /\ Len(fs) = rp.processed
               /\ load_cursor_ok
               /\ load_cursor = IF rp.processed = 0 THEN rp.cursor0
                                ELSE fs[rp.processed].end
            /\ (rp.kind = "with" /\ ~rp.failed)
                 => /\ rp.processed = rp.want
                    /\ queue_len = rp.qlen0 - rp.processed]_vars

(***************************************************************************)
(* The worker's tick.                                                      *)
(***************************************************************************)
\* a step is the first, or the last, part of a run_once
run_once_begins == \E a, p, ping \in BOOLEAN : run_once_begin(a, p, ping)
run_once_ends == \E c1, c2 \in BOOLEAN : run_once_end(c1, c2)

\* C21: a run_once calls replay_and_mark only with an outbox, a positive
\* max_replay_per_tick and a non-empty queue, and then for n =
\* min(max_replay_per_tick, queue_len) records: it tries at most n records
\* and returns processed <= n; otherwise replay_and_mark is not called,
\* processed is 0; in both cases the cursor ends behind the processed-th
\* record from where it stood, so it is unchanged when nothing is processed
C21_ReplayCap ==
    [][/\ run_once_begins =>
            IF outbox /\ max_replay_per_tick > 0 /\ queue_len > 0
            THEN /\ pc' # "heartbeat"
                 /\ pc' # "idle" =>
                       /\ rp'.kind = "once"
                       /\ rp'.want = IF max_replay_per_tick <= queue_len
                                     THEN max_replay_per_tick ELSE queue_len
                       /\ Len(rp'.batch) <= rp'.want
            ELSE /\ pc' = "heartbeat"
                 /\ rp' = NoCall
                 /\ cursor_file' = cursor_file
       /\ run_once_ends =>
            /\ rp.processed <= max_replay_per_tick
            /\ rp.processed <= rp.want
            /\ rp.tried <= rp.want
            /\ rp.kind = "none" => rp.processed = 0
            /\ cursor_file' = cursor_file
            /\ (rp.kind = "once" /\ load_cursor_ok) =>
                  LET fs == read_from(log, rp.cursor0, rp.processed) IN
                  /\ Len(fs) = rp.processed
                  /\ load_cursor = IF rp.processed = 0 THEN rp.cursor0
                                   ELSE fs[rp.processed].end]_vars

\* a worker capped at one record per tick has applied one of two queued
\* records and is about to write the heartbeat
C21_Witness ==
    /\ pc = "heartbeat"
    /\ max_replay_per_tick = 1
    /\ rp.kind = "once" /\ rp.qlen0 = 2 /\ rp.want = 1 /\ rp.processed = 1
    /\ queue_len = 1

\* C22: an error of run_once does not end run_loop, and the next tick retries
\* the replay from the persisted cursor: when the last run_once returned the
\* error of store_cursor, the record whose cursor update failed is still
\* pending, so the next run_once calls replay_and_mark with a batch that
\* starts at the persisted cursor, on that record.
C22_NextTickRetries ==
    [][(run_once_begins /\ last_run = "err_store_cursor") =>
          /\ pc' = "replay"
          /\ rp'.kind = "once"
          /\ load_cursor_ok /\ rp'.cursor0 = load_cursor
          /\ Head(rp'.batch).start = load_cursor]_vars

\* the outbox is drained: the persisted cursor is the end of the log, nothing
\* is pending and every record enqueue accepted has been applied to all the
\* clusters it targets
Drained ==
    /\ load_cursor_ok /\ load_cursor = Len(log)
    /\ queue_len = 0
    /\ \A r \in acked : r.start \in applied

\* C23: once no record is enqueued any more and every outbox write and every
\* apply succeeds, the loop of a worker with an outbox, a readable cursor and
\* max_replay_per_tick > 0 eventually drains the outbox: cursor = end_offset,
\* queue_len = 0, every record applied.  From then on run_once reads nothing
\* but the log and the cursor, so a tick that processes no record is followed
\* by ticks that do the same: the outbox is eventually drained only if every
\* such tick finds it drained.
C23_EventuallyDrained ==
    [][(run_once_ends /\ calm /\ outbox /\ max_replay_per_tick > 0
          /\ load_cursor_ok /\ rp.processed = 0) => Drained]_vars

\* main has returned or is starting the server
started_or_exited == boot.pc \in {"exit", "start_server"}

\* C24: when exactly one of the two clusters connected at startup (and the
\* keyspace of that cluster could be ensured), main goes on to start the HTTP
\* server with the partial DbClients; main ends on an error of init_clients
\* only when no cluster connected.
C24_PartialStartup ==
    /\ (started_or_exited /\ clients.active # clients.passive
          /\ \A c \in Cluster : session(clients, c) => boot.ens[c] \in ensured)
       => boot.pc = "start_server"
    /\ boot.error = "init_clients" => (~clients.active /\ ~clients.passive)

\* C25: init_clients makes at most DEFAULT_RETRIES = 3 connect attempts per
\* endpoint and none after the endpoint's first success; once it has
\* returned, it has returned Err(Db) exactly when no session was built, which
\* takes 3 failed attempts on each endpoint, and Ok whenever one was built, so
\* the DbClients main goes on with never has both sessions absent.
C25_InitClients ==
    [][/\ \A c \in Cluster :
            /\ boot'.tries[c] <= DEFAULT_RETRIES
            /\ boot'.tries[c] # boot.tries[c] =>
                  /\ boot'.tries[c] = boot.tries[c] + 1
                  /\ ~session(clients, c)
                  /\ boot.pc = "init_clients"
            /\ session(clients', c) => boot'.tries[c] >= 1
       /\ boot'.pc # "init_clients" =>
            /\ boot'.error = "init_clients" <=> (~clients'.active /\ ~clients'.passive)
            /\ boot'.error = "init_clients" =>
                  \A c \in Cluster : boot'.tries[c] = DEFAULT_RETRIES
            /\ \A c \in Cluster :
                  ~session(clients', c) => boot'.tries[c] = DEFAULT_RETRIES
            /\ boot'.pc # "exit" => (clients'.active \/ clients'.passive)]_vars

C25_Witness ==
    /\ boot.pc = "ensure_keyspaces"
    /\ boot.tries["Active"] = DEFAULT_RETRIES /\ ~clients.active
    /\ boot.tries["Passive"] = 2 /\ clients.passive

(***************************************************************************)
(* The drift report.                                                       *)
(***************************************************************************)
\* the thresholds drift_status is asked with: the worker's defaults and some
\* that the pending records and bytes of the model exceed
RecThresholds == {0, 1, drift_rec_threshold}
BytesThresholds == {0, 36, drift_bytes_threshold}

\* C26: with an outbox whose cursor can be read, drift_status(rec_thr,
\* bytes_thr) returns the persisted cursor, the end of the log,
\* pending_records = pending_count and pending_bytes = end - cursor, with
\* healthy true iff pending_records <= rec_thr and pending_bytes <= bytes_thr;
\* and cursor <= end in every reachable state, crashes and reopens included.
C26_DriftStatus ==
    (outbox /\ load_cursor_ok) =>
        LET cursor == load_cursor
            records == pending_count
        IN  /\ cursor <= end_offset
            /\ \A rt \in RecThresholds, bt \in BytesThresholds :
                  LET d == drift_status(rt, bt) IN
                  /\ d.ok /\ d.val.some
                  /\ d.val.val.cursor = cursor
                  /\ d.val.val.end = Len(log)
                  /\ d.val.val.pending_records = records
                  /\ d.val.val.pending_bytes = Len(log) - cursor
                  /\ d.val.val.healthy <=>
                        (records <= rt /\ Len(log) - cursor <= bt)

\* C26 witness: after a crash and a reopen one record of 36 bytes is pending
\* behind a cursor that has moved; the report is unhealthy with a record
\* threshold of 0 and healthy with the thresholds 1 and 36.
C26_Witness ==
    /\ up /\ outbox /\ load_cursor_ok /\ crashes = 1
    /\ load_cursor > 0 /\ end_offset - load_cursor = 36 /\ pending_count = 1
    /\ ~drift_status(0, drift_bytes_threshold).val.val.healthy
    /\ drift_status(1, 36).val.val.healthy
    /\ ~drift_status(1, 0).val.val.healthy

(***************************************************************************)
(* The codec.                                                              *)
(***************************************************************************)
\* C27: decode(encode(rec)) = rec for every record of CodecRecords; and when
\* a record with created_ms # 0 is the only one appended to the empty log,
\* read_from(0, 1) yields just that record, starting at 0 and ending at the
\* offset append returned, which is end_offset().
C27_RoundTrip ==
    /\ trip.stage = "decoded" => trip.back = Some(trip.rec)
    /\ (trip.did_read /\ appends = 1 /\ trip.rec.created_ms # 0) =>
          /\ Cardinality(acked) = 1
          /\ \A r \in acked :
                /\ trip.read = <<[start |-> 0, end |-> r.end, rec |-> trip.rec]>>
                /\ r.end = end_offset

C27_Witness ==
    /\ trip.stage = "decoded"
    /\ trip.did_read /\ appends = 1 /\ Len(trip.read) = 1
    /\ trip.rec.created_ms = 65536
    /\ trip.rec.idempotency_key = <<195, 169, 226, 130, 172>>
    /\ Len(trip.rec.params) = 2
    /\ trip.rec.target = "Both"

(***************************************************************************)
(* The scan of the log.                                                    *)
(***************************************************************************)
\* the header fields of the frame of file f at offset o, if the file holds a
\* whole header there
magic_at(f, o) == from_le_bytes(SubSeq(f, o + 1, o + 4))
version_at(f, o) == from_le_bytes(SubSeq(f, o + 5, o + 6))
plen_at(f, o) == from_le_bytes(SubSeq(f, o + 7, o + 10))
payload_at(f, o) == SubSeq(f, o + HEADER_LEN + 1, o + HEADER_LEN + plen_at(f, o))

\* read_from goes beyond the frame of file f at offset o: whole header, the
\* magic and the version of the outbox, whole payload, decodable
readable_at(f, o) ==
    /\ o + HEADER_LEN <= Len(f)
    /\ magic_at(f, o) = OB_MAGIC /\ version_at(f, o) = OB_VERSION
    /\ o + HEADER_LEN + plen_at(f, o) <= Len(f)
    /\ decode(payload_at(f, o)).some

\* C28: read_from(offset, max) returns Ok with the records of the frames that
\* follow each other from offset on, each with the magic 0x4E415944, the
\* version 1 and a whole decodable payload; it returns no record of a frame
\* with another magic or version and none located behind such a frame or
\* behind a short header or payload: unless max records were returned, the
\* position behind the last returned record is not readable.
C28_ScanStops ==
    trip.did_read =>
        LET out == trip.read
            n   == Len(out)
            pos(i) == IF i = 1 THEN trip.at ELSE out[i - 1].end
        IN  /\ n <= trip.max
            /\ \A i \in 1..n :
                  /\ out[i].start = pos(i)
                  /\ readable_at(log, out[i].start)
                  /\ out[i].end = out[i].start + HEADER_LEN + plen_at(log, out[i].start)
                  /\ out[i].rec = decode(payload_at(log, out[i].start)).val
            /\ n < trip.max => ~readable_at(log, pos(n + 1))

\* C28 witness: an unbounded read from 0 of a log of three whole frames whose
\* second frame has the version 2 returned the first record only.
C28_Witness ==
    /\ trip.did_read /\ trip.at = 0 /\ trip.max > 2
    /\ Len(trip.read) = 1
    /\ Len(log) = 3 * trip.read[1].end
    /\ magic_at(log, trip.read[1].end) = OB_MAGIC
    /\ version_at(log, trip.read[1].end) = 2
    /\ readable_at(log, 2 * trip.read[1].end)

(***************************************************************************)
(* The configuration.                                                      *)
(***************************************************************************)
\* the first available of the specific variable, the global variable and the
\* default, where usable(v) says which values of a variable count
first_available(e, specific, global, default, usable(_)) ==
    IF e[specific].some /\ usable(e[specific].val) THEN e[specific].val
    ELSE IF e[global].some /\ usable(e[global].val) THEN e[global].val
    ELSE default

any_string(v) == TRUE
parses(v) == parse_u16(v).some

\* the decimal digits of a port
RECURSIVE digits(_)
digits(n) == IF n < 10 THEN <<48 + n>> ELSE Append(digits(n \div 10), 48 + (n % 10))

\* C29: after from_env every host and username is the first available of the
\* cluster's own variable, the DB_ variable and the default, an empty value
\* counting as available; every port is the value of the first of the two
\* variables that parses as a u16, else the default 9042 (Active) or 9043
\* (Passive); ACTIVE_DB_PORT=not-a-number without DB_PORT gives 9042.
C29_ConfigPrecedence ==
    conf.loaded =>
        LET e == conf.env
            a == conf.cfg.active
            p == conf.cfg.passive
            port(specific, default) ==
                LET v == first_available(e, specific, "DB_PORT", digits(default),
                                         parses)
                IN  parse_u16(v).val
        IN  /\ a.host = first_available(e, "ACTIVE_DB_HOST", "DB_HOST",
                                        DbEndpoint_default.host, any_string)
            /\ p.host = first_available(e, "PASSIVE_DB_HOST", "DB_HOST",
                                        DbEndpoint_default.host, any_string)
            /\ a.username = first_available(e, "ACTIVE_DB_USERNAME", "DB_USERNAME",
                                            DbEndpoint_default.username, any_string)
            /\ p.username = first_available(e, "PASSIVE_DB_USERNAME", "DB_USERNAME",
                                            DbEndpoint_default.username, any_string)
            /\ a.port = port("ACTIVE_DB_PORT", 9042)
            /\ p.port = port("PASSIVE_DB_PORT", 9043)
            /\ (e["ACTIVE_DB_PORT"] = Some(not_a_number) /\ ~e["DB_PORT"].some)
                  => a.port = 9042
            /\ e["ACTIVE_DB_USERNAME"] = Some(<<>>) => a.username = <<>>
            /\ (e = NoEnv) =>
                  /\ a = [host |-> <<49, 50, 55, 46, 48, 46, 48, 46, 49>>,
                          port |-> 9042, username |-> DbEndpoint_default.username]
                  /\ p.host = a.host /\ p.port = 9043

\* C29 witness: from_env has run with ACTIVE_DB_PORT=not-a-number, no
\* DB_PORT, ACTIVE_DB_USERNAME empty beside a DB_USERNAME, and ACTIVE_DB_HOST
\* beside DB_HOST.
C29_Witness ==
    /\ conf.loaded
    /\ conf.env["ACTIVE_DB_PORT"] = Some(not_a_number) /\ ~conf.env["DB_PORT"].some
    /\ conf.env["ACTIVE_DB_USERNAME"] = Some(<<>>) /\ conf.env["DB_USERNAME"].some
    /\ conf.env["ACTIVE_DB_HOST"] = Some(activehost)
    /\ conf.env["DB_HOST"] = Some(globalhost)
    /\ ~conf.env["PASSIVE_DB_HOST"].some
    /\ conf.cfg.active.host = activehost /\ conf.cfg.passive.host = globalhost
    /\ conf.cfg.active.port = 9042

\* the three consecutive counters of a FailoverState are 0
counters_zero(st) ==
    /\ st.consecutive_active_fail = 0
    /\ st.consecutive_active_success = 0
    /\ st.consecutive_passive_success = 0

\* C30: a tick that commits a switch leaves primary at the target that
\* update_with made pending, the three consecutive counters 0, pending None
\* and last_switch set; last_switch is None exactly while no switch has been
\* committed; primary changes only in a tick that commits a switch, once in
\* that tick, and to the cluster other than the primary before it.
C30_CommitSwitch ==
    /\ [](state.last_switch <=> fh.switches > 0)
    /\ [][/\ \A a, p \in BOOLEAN :
               (ticked(a, p) /\ fh'.switches # fh.switches)
                 => /\ update_with(state, a, p).pending.some
                    /\ state'.primary = update_with(state, a, p).pending.val
                    /\ counters_zero(state')
                    /\ state'.pending = None
                    /\ state'.last_switch
          /\ state'.primary # state.primary
               => /\ fh'.ticks = fh.ticks + 1
                  /\ fh'.switches = fh.switches + 1
                  /\ state'.primary =
                        (IF state.primary = "Active" THEN "Passive" ELSE "Active")
          /\ fh'.switches # fh.switches
               => (fm_built /\ state'.primary # state.primary)]_vars

\* C30 witness: a manager without forced readiness has committed one switch
\* on the probe's answer and stands at Passive with the counters cleared
C30_Witness ==
    /\ fm_built
    /\ ~force_ready
    /\ fh.probed
    /\ fh.switches = 1
    /\ state.primary = "Passive"
    /\ counters_zero(state)
    /\ state.pending = None
    /\ state.last_switch

(***************************************************************************)
(* Records for both clusters.                                              *)
(***************************************************************************)
\* a manager with an outbox that is handed records for both clusters and
\* replays them with replay_and_mark, the history of its executes kept
BothInit ==
    /\ log = <<>>
    /\ trip = NoTrip
    /\ conf = NoConf
    /\ cursor_file = NoFile
    /\ execs = [NoExecs EXCEPT !.on = TRUE]
    /\ ConfigRest

BothNext ==
    \/ \E ks \in BOOLEAN : open(TRUE, ks)
    \/ \E rec \in Records, now \in NowMs : enqueue(rec, now)
    \/ \E max \in 0..MaxBatch : replay_begin("mark", max)
    \/ \E a \in BOOLEAN, b \in BOOLEAN, st \in {"ok", "err_open", "err_write"} :
            replay_step(a, b, st)
    \/ \E c1 \in BOOLEAN, c2 \in BOOLEAN : replay_mark(c1, c2)
    \/ replay_return

BothSpec == BothInit /\ [][BothNext]_vars

\* C31: an iteration of replay_and_mark on a record for both clusters finds
\* the cursor at the start of the record and changes the cursor file only
\* when the execute succeeded on Active and on Passive; when one of them
\* failed the cursor file and the marks are as before, nothing of the batch
\* is left and no watermark is written; when both succeeded and the cursor
\* was stored the two marks of the record are pushed.  A replay that starts
\* begins with the record at the cursor, and its iteration executes the
\* statement again on every cluster where it had succeeded before.
C31_BothNeedsBoth ==
    [][/\ \A a, b \in BOOLEAN, st \in {"ok", "err_open", "err_write"} :
            (replay_step(a, b, st) /\ Head(rp.batch).rec.target = "Both")
              => LET e == Head(rp.batch) IN
                 /\ load_cursor_ok /\ load_cursor = e.start
                 /\ cursor_file' # cursor_file => (a /\ b)
                 /\ ~(a /\ b) =>
                       /\ cursor_file' = cursor_file
                       /\ rp'.marks = rp.marks
                       /\ rp'.batch = <<>>
                       /\ applied' = applied
                       /\ wm' = wm
                 /\ (a /\ b /\ st = "ok") =>
                       /\ cursor_of(cursor_file') = e.end
                       /\ rp'.marks = rp.marks \o
                             <<[cl |-> "Active", id |-> e.end],
                               [cl |-> "Passive", id |-> e.end]>>
                 /\ \A c \in Cluster :
                       <<c, e.start>> \in execs.ok => <<c, e.start>> \in execs'.again
       /\ (pc = "idle" /\ pc' = "replay")
            => Head(rp'.batch).start = load_cursor]_vars

\* C31 witness: the record at offset 0 failed on Passive after it had
\* succeeded on Active, was executed on Active once more by a later replay,
\* and has now been applied on both, the cursor behind it.
C31_Witness ==
    /\ execs.on
    /\ <<"Active", 0>> \in execs.again
    /\ <<"Passive", 0>> \in execs.ok
    /\ <<"Passive", 0>> \notin execs.again
    /\ 0 \in applied
    /\ load_cursor_ok /\ load_cursor > 0
    /\ pc = "idle"

(***************************************************************************)
(* Failing cursor writes.                                                  *)
(***************************************************************************)
\* C32: an iteration of replay_and_mark or replay_with whose record was
\* applied and whose store_cursor failed ends the call (no record of the
\* batch is applied after it) and leaves outbox.cursor as the last
\* successful store_cursor wrote it, readable and in front of the record.
C32_StoreCursorFailure ==
    [][\A a, b \in BOOLEAN, st \in {"err_open", "err_write"} :
          (replay_step(a, b, st)
             /\ applied_ok(rp.kind, Head(rp.batch).rec.target, a, b))
            => /\ pc' = "idle" /\ rp' = NoCall
               /\ cursor_file' = cursor_file
               /\ cursor_ok(cursor_file')
               /\ cursor_of(cursor_file') = Head(rp.batch).start]_vars

\* C33: the watermark rows change only in the loop over the marks, after the
\* loop over the batch, the marks being written in the order of their
\* records; and a replay_and_mark call returns to its caller with no mark
\* left: every record whose cursor advance the call stored has had its
\* watermark write attempted.
C33_MarksAfterLoop ==
    /\ [](pc = "marks" =>
            \A i, j \in 1..Len(rp.marks) : i < j => rp.marks[i].id <= rp.marks[j].id)
    /\ [][/\ wm' # wm => (pc = "marks" /\ wm'[Head(rp.marks).cl] = Head(rp.marks).id)
          /\ (up' /\ rp.kind = "mark" /\ pc' = "idle") => rp.marks = <<>>]_vars

(***************************************************************************)
(* The prepared-statement cache.                                           *)
(***************************************************************************)
\* C34: a task whose prepare is in flight holds neither Mutex; a Mutex is
\* held only by a task that is at the lookup or at the insert on the cache
\* of that cluster, whose next step releases it without a driver call: so a
\* task waiting for the lock never waits for a prepare.
C34_NoLockAcrossPrepare ==
    /\ \A t \in Callers : prep.task[t].pc = "prepare" =>
          \A c \in Cluster : prep.holder[c] # t
    /\ \A c \in Cluster : prep.holder[c] # 0 =>
          /\ prep.task[prep.holder[c]].pc \in {"lookup", "insert"}
          /\ prep.task[prep.holder[c]].cl = c

\* C34 witness: while the prepare of task 1 for "check" on Active is in
\* flight, task 2 holds the lock of the same cache for its insert of "other"
C34_Witness ==
    /\ prep.task[1].pc = "prepare" /\ prep.task[1].cl = "Active"
    /\ prep.task[1].cql = "check"
    /\ prep.task[2].pc = "insert" /\ prep.task[2].cl = "Active"
    /\ prep.task[2].cql = "other"
    /\ prep.holder["Active"] = 2

\* C35: no step removes a key from a cache; a prepare that fails returns None
\* and leaves both caches as they were; a call for a cluster without session
\* returns None at once and leaves caches and locks as they were; a lookup
\* that misses goes on to the driver's prepare, whether or not a prepare of
\* that text has failed before; and Some is returned only for a cached text.
C35_PrepareFailure ==
    [][/\ \A c \in Cluster : prep.cache[c] \subseteq prep'.cache[c]
       /\ \A t \in Callers :
            LET me == prep.task[t]
                to == prep'.task[t]
            IN  /\ (me.pc = "prepare" /\ to.pc = "idle") =>
                      /\ to.ret = "None"
                      /\ prep'.cache = prep.cache
                      /\ <<me.cl, me.cql>> \in prep'.failed
                /\ (me.pc = "idle" /\ to # me /\ ~session(clients, to.cl)) =>
                      /\ to.pc = "idle" /\ to.ret = "None"
                      /\ prep'.cache = prep.cache
                      /\ prep'.holder = prep.holder
                /\ (me.pc = "lookup" /\ to # me /\ me.cql \notin prep.cache[me.cl]) =>
                      to.pc = "prepare"
                /\ (to.ret = "Some" /\ to.pc = "idle") =>
                      to.cql \in prep'.cache[to.cl]]_vars

\* C35 witness: the prepare of "check" on Active has failed, a later call
\* has prepared and cached it, and a call for Passive, which has no session,
\* has returned None
C35_Witness ==
    /\ <<"Active", "check">> \in prep.failed
    /\ "check" \in prep.cache["Active"]
    /\ ~clients.passive
    /\ prep.task[2].cl = "Passive" /\ prep.task[2].ret = "None"
    /\ prep.cache["Passive"] = {}

(***************************************************************************)
(* Torn frames and the cursor file.                                        *)
(***************************************************************************)
\* C36: every record for which append has returned and that starts at or
\* behind the cursor is returned by read_from(cursor, unbounded), at the
\* offsets append gave it, torn bytes of an earlier crash lying in front of
\* it or not, so that queue_len is at least their number.
C36_TornTailAbsent ==
    (up /\ outbox /\ load_cursor_ok) =>
        LET ps == pending
            behind == {a \in acked : a.start >= load_cursor}
        IN  /\ \A a \in behind : \E i \in DOMAIN ps : ps[i] = a
            /\ queue_len >= Cardinality(behind)

\* C37: when the process dies, inside store_cursor(new) or elsewhere,
\* outbox.cursor holds 8 bytes, the offset it held before or the offset
\* store_cursor was writing, so that load_cursor succeeds after the restart.
C37_CursorCrashSafe ==
    [][(up /\ ~up' /\ cursor_ok(cursor_file)) =>
          /\ cursor_file' # NoFile
          /\ Len(cursor_file') = CURSOR_LEN
          /\ \/ cursor_of(cursor_file') = cursor_of(cursor_file)
             \/ /\ pc = "replay" /\ rp.batch # <<>>
                /\ cursor_of(cursor_file') = Head(rp.batch).end]_vars

(***************************************************************************)
(* Hysteresis.                                                             *)
(***************************************************************************)
\* C38: a tick that switches to Passive is at least the 3rd tick after the
\* tick of the last switch (or after construction), a tick that switches to
\* Active at least the 5th, whatever the observations and the answers of the
\* readiness probe; so no two ticks in a row change the primary.
C38_Hysteresis ==
    [][fh'.switches # fh.switches =>
          /\ state'.primary = "Passive" => fh.since + 1 >= 3
          /\ state'.primary = "Active" => fh.since + 1 >= 5
          /\ fh.switches > 0 => fh.since >= 1]_vars

\* C38 witness: the quickest round trip and the failover after it: failover
\* on the 3rd tick, recovery on the 5th tick after it, failover again on the
\* 3rd tick after that
C38_Witness ==
    /\ fh.switches = 3 /\ fh.ticks = 11 /\ fh.since = 0
    /\ state.primary = "Passive"

(***************************************************************************)
(* Blocked switches.                                                       *)
(***************************************************************************)
\* a step is a tick that observed (a, p) and whose readiness probe, if it is
\* asked, answers ping
ticked_with(a, p, ping) ==
    \/ tick_with_status(a, p, ping)
    \/ \E x, y \in BOOLEAN :
          /\ a = (clients.active /\ x)
          /\ p = (clients.passive /\ y)
          /\ tick(x, y, ping)

\* C39: when the last tick left a failover pending (its readiness check
\* failed) and this tick observes (false, true) again, the failover is
\* committed in this tick if its readiness check passes and is left pending
\* again if not; the same for a recovery left pending and a tick that
\* observes Active ok again.
C39_BlockedSwitchKept ==
    [][\A a, p, ping \in BOOLEAN :
          ticked_with(a, p, ping) =>
            /\ (state.primary = "Active" /\ state.pending = Some("Passive")
                  /\ ~a /\ p)
                 => IF force_ready \/ (clients.passive /\ ping)
                    THEN state'.primary = "Passive" /\ fh'.switches = fh.switches + 1
                    ELSE /\ state'.primary = "Active"
                         /\ state'.pending = Some("Passive")
            /\ (state.primary = "Passive" /\ state.pending = Some("Active") /\ a)
                 => IF force_ready \/ (clients.active /\ ping)
                    THEN state'.primary = "Active" /\ fh'.switches = fh.switches + 1
                    ELSE /\ state'.primary = "Passive"
                         /\ state'.pending = Some("Active")]_vars

\* C39 witness: a manager without forced readiness has committed its
\* failover on the 5th failing Active observation in a row, two ticks after
\* the counter reached the threshold, on the probe's answer
C39_Witness ==
    /\ ~force_ready
    /\ fh.ticks = 5 /\ fh.fail_streak = 5
    /\ fh.switches = 1 /\ fh.since = 0
    /\ fh.probed
    /\ state.primary = "Passive"

(***************************************************************************)
(* The SyncWorker builder, one action per step.                            *)
(***************************************************************************)
\* what a builder step leaves alone
beside_builder == <<fvars, dvars, lvars, cvars, bvars, tvars, evars, pvars, xvars>>

\* a builder step takes the worker by value before it is used: no run_once
\* has begun, and each step is applied once
building(step) ==
    /\ up /\ fm_built /\ pc = "idle"
    /\ fh.ticks = 0
    /\ \A i \in DOMAIN steps : steps[i] # step

\* SyncWorker::new(): a ReplicationManager::new() without outbox and without
\* keyspaces, max_replay_per_tick 128; sa, sp say which sessions the DbClients
\* handed to run_once hold
SyncWorker_new(sa, sp) ==
    worker_new(FALSE, FALSE, sa, sp, max_replay_default)

\* SyncWorker::with_outbox_dir(dir), Outbox::open succeeding: repl is
\* replaced by ReplicationManager::with_outbox_dir(dir), whose keyspaces are
\* None
with_outbox_dir ==
    /\ building("with_outbox_dir")
    /\ steps' = Append(steps, "with_outbox_dir")
    /\ outbox' = TRUE
    /\ keyspaces' = FALSE
    /\ cursor_file' = IF cursor_file = NoFile
                      THEN to_le_bytes(0, CURSOR_LEN) ELSE cursor_file
    /\ UNCHANGED beside_builder
    /\ UNCHANGED <<max_replay_per_tick, last_drift>>
    /\ UNCHANGED <<log, up, pc, rp, wm, applied, acked, failed_writes, appends,
                   crashes, rows>>

\* SyncWorker::with_keyspaces(active, passive): the two keyspaces are set in
\* the repl the worker holds
with_keyspaces ==
    /\ building("with_keyspaces")
    /\ steps' = Append(steps, "with_keyspaces")
    /\ keyspaces' = TRUE
    /\ UNCHANGED beside_builder
    /\ UNCHANGED <<max_replay_per_tick, last_drift>>
    /\ UNCHANGED <<log, cursor_file, up, outbox, pc, rp, wm, applied, acked,
                   failed_writes, appends, crashes, rows>>

\* SyncWorker::with_max_replay_per_tick(max)
with_max_replay_per_tick(max) ==
    /\ building("with_max_replay_per_tick")
    /\ steps' = Append(steps, "with_max_replay_per_tick")
    /\ max_replay_per_tick' = max
    /\ UNCHANGED beside_builder
    /\ UNCHANGED last_drift
    /\ UNCHANGED ovars

\* a worker built step by step, then run against clusters that answer the
\* health probe of every tick; the statements and the heartbeat may fail
BuilderNext ==
    \/ \E sa, sp \in BOOLEAN : SyncWorker_new(sa, sp)
    \/ with_outbox_dir
    \/ with_keyspaces
    \/ \E max \in ReplayCaps : with_max_replay_per_tick(max)
    \/ \E rec \in Records, now \in NowMs : enqueue(rec, now)
    \/ run_once_begin(TRUE, TRUE, TRUE)
    \/ \E a \in BOOLEAN, b \in BOOLEAN, st \in {"ok", "err_open", "err_write"} :
            possible(a, b) /\ replay_step(a, b, st)
    \/ \E c1 \in BOOLEAN, c2 \in BOOLEAN :
            possible(c1 /\ c2, c1 /\ c2) /\ replay_mark(c1, c2)
    \/ replay_return
    \/ \E c1 \in BOOLEAN, c2 \in BOOLEAN : run_once_end(c1, c2)

BuilderSpec == Init /\ [][BuilderNext]_vars

\* the builder steps in s
applied_steps(s) == {s[i] : i \in DOMAIN s}

\* with_keyspaces and with_outbox_dir are both among the steps s
both_applied(s) == {"with_keyspaces", "with_outbox_dir"} \subseteq applied_steps(s)

\* C40: a worker to which with_keyspaces and with_outbox_dir have both been
\* applied, in either order, has the outbox and the two keyspaces, and the
\* heartbeat of its run_once has written a watermark row on Passive whenever
\* the upsert could be sent and succeeded.
C40_BuilderCommutes ==
    [][/\ both_applied(steps') => outbox' /\ keyspaces'
       /\ both_applied(steps) =>
             \A c1, c2 \in BOOLEAN :
                (run_once_end(c1, c2) /\ c2 /\ clients.passive /\ load_cursor_ok)
                    => write_watermark_for_id \in rows'["Passive"]]_vars

====
